---- MODULE Spec2Model ----
(***************************************************************************)
(* FingerBot: the per-context message queue (MessageQueueManager), the     *)
(* stamina controller (StaminaManager) that gates it, and the rotation of  *)
(* API keys (ApiKeyManager).                                               *)
(*                                                                         *)
(* Time is counted in whole seconds.  Stamina values are fixed-point      *)
(* numbers in hundredths of a point (Scale), the code computes them in     *)
(* floating point.  Queue states are objects of a heap: the manager's map  *)
(* holds references, and a flush in flight keeps the reference it started  *)
(* with, as the closure of flushQueue does.                                *)
(***************************************************************************)
EXTENDS Integers, Sequences, FiniteSets, TLC

(* ---------------------------- bounds ---------------------------------- *)
MaxMsgs == 3
MaxTime == 3
MaxStates == 3
MaxAdmin == 1
MaxOps == 2
MaxStaminaTime == 11
MaxStaminaOps == 2
MaxKeyTime == 6
MaxErrorCount == 6
MaxCalls == 2
MaxTasks == 3
MaxAttempts == 3
MaxInbound == 3
MaxFlushes == 2
MaxSharedTime == 4

(* ------------------------ configuration ------------------------------- *)
silenceSeconds == 2
maxQueueSize == 3
maxQueueAgeSeconds == 2
regenIntervalSeconds == 2

\* ApiKeyManager: the window and the block duration, in clock units
ERROR_WINDOW_MS == 1
BLOCK_DURATION_MS == 2
MAX_ERRORS_IN_WINDOW == 5
MAX_RETRIES == 3
DEFAULT_MAX_ATTEMPTS == 3

maxStamina == 100
criticalStaminaThreshold == 10
regenRate == 5
k == 1
Scale == 100

\* where an inbound message comes from; "" stands for an absent field
Addresses ==
  { [groupId |-> "g1", conversationId |-> "c9", userId |-> "u1"],
    [groupId |-> "", conversationId |-> "", userId |-> "u1"] }

botName == <<"F", "B">>

NoTimer == -1
FiredTimer == -2
NoState == 0
NoCtx == <<>>
StateIds == 1..MaxStates

(* ------------------------- text helpers -------------------------------- *)
Max(a, b) == IF a >= b THEN a ELSE b
Min(a, b) == IF a <= b THEN a ELSE b

\* String.prototype.toLowerCase on one character of the model's alphabet
lowerChar(ch) ==
  CASE ch = "F" -> "f"
    [] ch = "B" -> "b"
    [] ch = "H" -> "h"
    [] OTHER -> ch

toLowerCase(s) == [i \in 1..Len(s) |-> lowerChar(s[i])]

\* String.prototype.trim: strip leading and trailing blanks
RECURSIVE trimLeft(_)
trimLeft(s) == IF s # <<>> /\ Head(s) = " " THEN trimLeft(Tail(s)) ELSE s

RECURSIVE trimRight(_)
trimRight(s) ==
  IF s # <<>> /\ s[Len(s)] = " " THEN trimRight(SubSeq(s, 1, Len(s) - 1)) ELSE s

trim(s) == trimRight(trimLeft(s))

\* String.prototype.includes
includes(s, sub) ==
  \E i \in 1..(Len(s) - Len(sub) + 1) : SubSeq(s, i, i + Len(sub) - 1) = sub

\* the inbound messages the bus can deliver: content and type
Shapes ==
  { [content |-> <<"h", "i">>, type |-> "text"],
    [content |-> <<"h", "i", "?">>, type |-> "text"],
    [content |-> <<"@", "F", "b", " ">>, type |-> "text"],
    [content |-> <<" ", "f", "B">>, type |-> "text"],
    [content |-> <<"h", "i">>, type |-> "command"] }

isHighPriorityMessage_CaseSensitive(message) ==
  LET content == trim(message.content)
  IN includes(content, <<"@">> \o botName)
       \/ includes(content, botName)
       \/ message.type = "command"

isHighPriorityMessage(message) ==
  LET content == toLowerCase(trim(message.content))
      name == toLowerCase(botName)
  IN includes(content, <<"@">> \o name)
       \/ includes(content, name)
       \/ message.type = "command"

(* ----------------------------- state ----------------------------------- *)
VARIABLES
  clock,               \* Date.now(), in seconds
  queues,              \* Map<string, QueueState>: sequence of <<contextId, ref>>
  heap,                \* the QueueState objects
  processingContexts,  \* Set<string>
  stamina,             \* StaminaManager fields
  nextRegen,           \* next firing time of the stamina setInterval
  inflight,            \* processMessages calls awaited, by QueueState object
  handed,              \* the messages handed to processMessages so far
  ret,                 \* QueueProcessResults returned by the last step
  events,              \* listener events emitted by the last step
  nextMsg,             \* next inbound message id
  flushAllPc,          \* the flush() loop over all contexts
  adminOps,            \* admin operations issued so far
  keyStatus,           \* ApiKeyManager: Map<string, ApiKeyStatus>
  currentKeyIndex,     \* ApiKeyManager: index into apiKeys, from 0
  keyNow,              \* Date.now() as the ApiKeyManager reads it
  acquired,            \* what getCurrentApiKey() returned in the last step
  client,              \* GeminiClient: its key and the executeWithRetry loop
  taskQueue,           \* TaskQueue fields, the task futures, the handler log
  agent                \* EnhancedQQChatAgentServer: pendingReplies, flushes

managerVars == <<clock, queues, heap, processingContexts, stamina, nextRegen,
                 inflight, handed, ret, events, nextMsg, flushAllPc, adminOps>>

keyVars == <<keyStatus, currentKeyIndex, keyNow, acquired>>

serviceVars == <<client, taskQueue, agent>>

\* what the queue manager and the stamina manager never touch
restVars == <<keyVars, serviceVars>>

vars == <<managerVars, keyVars, serviceVars>>

(* ------------------------- stamina manager ----------------------------- *)
MaxC == maxStamina * Scale

update_Unclamped(s, intensity, dt) ==
  IF s.restMode
  THEN [s EXCEPT !.momentum = (s.momentum * (10 - dt)) \div 10]
  ELSE LET m1 == (s.momentum * (10 - dt)) \div 10
                   + (Scale * intensity * dt) \div 2
           consume == k * intensity * dt * Scale
           c1 == s.currentStamina - consume
           recoveryRaw == (regenRate * Scale * (MaxC - c1)) \div MaxC
           recoveryPenalty == (4 * m1) \div 10
           netRecovery == (recoveryRaw - recoveryPenalty) * dt
       IN [s EXCEPT !.momentum = m1,
                    !.currentStamina = c1 + netRecovery]

update_IgnoresRest(s, intensity, dt) ==
  LET m1 == Max(0, (s.momentum * (10 - dt)) \div 10
                     + (Scale * intensity * dt) \div 2)
      consume == k * intensity * dt * Scale
      c1 == s.currentStamina - consume
      recoveryRaw == (regenRate * Scale * (MaxC - c1)) \div MaxC
      recoveryPenalty == (4 * m1) \div 10
      netRecovery == (recoveryRaw - recoveryPenalty) * dt
  IN [s EXCEPT !.momentum = m1,
               !.currentStamina = Max(0, Min(c1 + netRecovery, MaxC))]

\* StaminaManager.update with beta = 0.1, alpha = 0.5, gamma = 0.4, p = 1
update(s, intensity, dt) ==
  IF s.restMode
  THEN [s EXCEPT !.momentum = Max(0, (s.momentum * (10 - dt)) \div 10)]
  ELSE LET m1 == Max(0, (s.momentum * (10 - dt)) \div 10
                          + (Scale * intensity * dt) \div 2)
           consume == k * intensity * dt * Scale
           c1 == s.currentStamina - consume
           recoveryRaw == (regenRate * Scale * (MaxC - c1)) \div MaxC
           recoveryPenalty == (4 * m1) \div 10
           netRecovery == (recoveryRaw - recoveryPenalty) * dt
       IN [s EXCEPT !.momentum = m1,
                    !.currentStamina = Max(0, Min(c1 + netRecovery, MaxC))]

calculateLevel(cur) ==
  IF cur * 100 >= 70 * MaxC THEN "high"
  ELSE IF cur * 100 >= 50 * MaxC THEN "medium"
  ELSE IF cur * 100 >= criticalStaminaThreshold * MaxC THEN "low"
  ELSE "critical"

canReply_NonNegative(s) == ~s.restMode /\ s.currentStamina >= 0

canReply(s) == ~s.restMode /\ s.currentStamina >= k * Scale

consumeStamina(s, messageCount, now) ==
  IF s.restMode THEN s
  ELSE LET dt == now - s.lastUpdateTime
           s1 == [s EXCEPT !.lastUpdateTime = now]
           s2 == IF dt > 0 THEN update(s1, 0, dt) ELSE s1
       IN update(s2, messageCount, 1)

setStamina(s, value) ==
  [s EXCEPT !.currentStamina = Max(0, Min(MaxC, value * Scale))]

setRestMode(s, enabled) == [s EXCEPT !.restMode = enabled]

(* --------------------------- the queue map ----------------------------- *)
mapHas(q, c) == \E i \in 1..Len(q) : q[i][1] = c

mapGet(q, c) ==
  IF mapHas(q, c) THEN q[CHOOSE i \in 1..Len(q) : q[i][1] = c][2] ELSE NoState

mapDelete(q, c) == SelectSeq(q, LAMBDA e : e[1] # c)

mapKeys(q) == [i \in 1..Len(q) |-> q[i][1]]

\* a listener callback or a log line, with the flush reason it carries
Event(name, reason) == [name |-> name, reason |-> reason]

NoCall == [contextId |-> NoCtx, messages |-> <<>>, reason |-> "none"]

Blank ==
  [contextId |-> NoCtx, messages |-> <<>>, silenceTimer |-> NoTimer,
   isProcessing |-> FALSE]

\* a QueueState object something can still reach: the map, a flush that
\* awaits processMessages, or a pending timer
Live(w, sid) ==
  \/ \E i \in 1..Len(w.queues) : w.queues[i][2] = sid
  \/ w.inflight[sid] # NoCall
  \/ w.heap[sid].silenceTimer >= 0

Collect(w) ==
  [w EXCEPT !.heap = [sid \in StateIds |->
                        IF Live(w, sid) THEN w.heap[sid] ELSE Blank]]

getContextId(address) ==
  IF address.groupId # "" THEN <<"group", address.groupId>>
  ELSE IF address.conversationId # "" THEN <<"conv", address.conversationId>>
  ELSE <<"private", address.userId>>

Contexts == {getContextId(a) : a \in Addresses}

getOrCreateQueue(w, contextId) ==
  IF mapHas(w.queues, contextId) THEN w
  ELSE LET sid == CHOOSE x \in StateIds :
                    ~Live(w, x) /\ \A y \in StateIds : ~Live(w, y) => x <= y
       IN [w EXCEPT !.heap[sid] = [Blank EXCEPT !.contextId = contextId],
                    !.queues = Append(@, <<contextId, sid>>)]

clearSilenceTimer(h, sid) == [h EXCEPT ![sid].silenceTimer = NoTimer]

Result(contextId, processed, count, reason, error) ==
  [contextId |-> contextId, processed |-> processed, messageCount |-> count,
   reason |-> reason, error |-> error]

\* what the processor is handed, less the fields no claim reads
handedOver(msgs) ==
  [i \in 1..Len(msgs) |->
     [messageId |-> msgs[i].messageId, contextId |-> msgs[i].contextId]]

\* flushQueue, the branch taken when canReply() is false: the queue is
\* dropped at level critical and kept otherwise
skipForStamina_AlwaysDrops(w, sid, contextId, reason) ==
  [w EXCEPT !.heap[sid].messages = <<>>,
            !.events = Append(@, Event("log_stamina_skip", reason)),
            !.ret = Append(@, Result(contextId, FALSE, 0,
                                     "stamina_insufficient", FALSE))]

skipForStamina(w, sid, contextId, reason) ==
  LET msgs == w.heap[sid].messages
      kept == IF calculateLevel(stamina.currentStamina) = "critical"
              THEN <<>> ELSE msgs
  IN [w EXCEPT !.heap[sid].messages = kept,
               !.events = Append(@, Event("log_stamina_skip", reason)),
               !.ret = Append(@, Result(contextId, FALSE, Len(kept),
                                        "stamina_insufficient", FALSE))]

\* flushQueue from setting isProcessing to the call of processMessages
startFlush_KeepsQueue(w, sid, contextId, reason) ==
  LET msgs == w.heap[sid].messages IN
  [w EXCEPT !.heap[sid].isProcessing = TRUE,
            !.processingContexts = @ \cup {contextId},
            !.inflight[sid] = [contextId |-> contextId,
                               messages |-> handedOver(msgs),
                               reason |-> reason],
            !.handed = @ \cup {handedOver(msgs)[i] : i \in 1..Len(msgs)}]

startFlush(w, sid, contextId, reason) ==
  LET msgs == w.heap[sid].messages IN
  [w EXCEPT !.heap[sid].isProcessing = TRUE,
            !.heap[sid].messages = <<>>,
            !.processingContexts = @ \cup {contextId},
            !.inflight[sid] = [contextId |-> contextId,
                               messages |-> handedOver(msgs),
                               reason |-> reason],
            !.handed = @ \cup {handedOver(msgs)[i] : i \in 1..Len(msgs)}]

flushQueue_NoEmptyCheck(w, contextId, reason) ==
  LET sid == mapGet(w.queues, contextId) IN
  IF sid = NoState
  THEN [w EXCEPT !.ret = Append(@, Result(contextId, FALSE, 0, reason, FALSE))]
  ELSE
    LET w1 == [w EXCEPT !.heap = clearSilenceTimer(@, sid)]
        msgs == w1.heap[sid].messages
    IN
    IF ~canReply(stamina)
    THEN skipForStamina(w1, sid, contextId, reason)
    ELSE IF w1.heap[sid].isProcessing
    THEN [w1 EXCEPT !.events = Append(@, Event("log_busy", reason)),
                    !.ret = Append(@, Result(contextId, FALSE, Len(msgs),
                                             reason, FALSE))]
    ELSE startFlush(w1, sid, contextId, reason)

\* flushQueue up to its await of processMessages (or to its early return)
flushQueue(w, contextId, reason) ==
  LET sid == mapGet(w.queues, contextId) IN
  IF sid = NoState
  THEN [w EXCEPT !.ret = Append(@, Result(contextId, FALSE, 0, reason, FALSE))]
  ELSE
    LET w1 == [w EXCEPT !.heap = clearSilenceTimer(@, sid)]
        msgs == w1.heap[sid].messages
    IN
    IF msgs = <<>>
    THEN [w1 EXCEPT !.ret = Append(@, Result(contextId, FALSE, 0, reason,
                                             FALSE))]
    ELSE IF ~canReply(stamina)
    THEN skipForStamina(w1, sid, contextId, reason)
    ELSE IF w1.heap[sid].isProcessing
    THEN [w1 EXCEPT !.events = Append(@, Event("log_busy", reason)),
                    !.ret = Append(@, Result(contextId, FALSE, Len(msgs),
                                             reason, FALSE))]
    ELSE startFlush(w1, sid, contextId, reason)

resetSilenceTimer_KeepsArmed(w, sid) ==
  IF w.heap[sid].silenceTimer >= 0 \/ silenceSeconds <= 0 THEN w
  ELSE [w EXCEPT !.heap[sid].silenceTimer = clock + silenceSeconds]

resetSilenceTimer(w, sid) ==
  LET h1 == clearSilenceTimer(w.heap, sid) IN
  IF silenceSeconds <= 0 THEN [w EXCEPT !.heap = h1]
  ELSE [w EXCEPT !.heap = [h1 EXCEPT ![sid].silenceTimer =
                                       clock + silenceSeconds]]

sizeLimitReached_Strict(queueLength) == queueLength > maxQueueSize

sizeLimitReached(queueLength) == queueLength >= maxQueueSize

queueTooOld_Strict(ageSeconds) == ageSeconds > maxQueueAgeSeconds

queueTooOld(ageSeconds) == ageSeconds >= maxQueueAgeSeconds

checkAndTriggerFlush(w, contextId, sid) ==
  LET msgs == w.heap[sid].messages IN
  IF Len(msgs) = 0 THEN w
  ELSE IF sizeLimitReached(Len(msgs))
  THEN flushQueue(w, contextId, "max_size_trigger")
  ELSE IF queueTooOld(clock - msgs[1].receivedAt)
  THEN flushQueue(w, contextId, "max_age_trigger")
  ELSE w

convertToQueuedMessage(id, shape, contextId) ==
  [messageId |-> id, contextId |-> contextId,
   isHighPriority |-> isHighPriorityMessage(shape), receivedAt |-> clock]

addMessage(w, id, address, shape) ==
  LET contextId == getContextId(address)
      w1 == getOrCreateQueue(w, contextId)
      sid == mapGet(w1.queues, contextId)
      queuedMessage == convertToQueuedMessage(id, shape, contextId)
      w2 == [w1 EXCEPT !.events = Append(@, Event("onMessageQueued", "none")),
                       !.heap[sid].messages = Append(@, queuedMessage)]
  IN IF queuedMessage.isHighPriority
     THEN flushQueue(w2, contextId, "high_priority_trigger")
     ELSE checkAndTriggerFlush(resetSilenceTimer(w2, sid), contextId, sid)

silenceCallback_NeverFlushes(w, sid) ==
  [w EXCEPT !.heap[sid].silenceTimer = FiredTimer]

\* the setTimeout callback armed by resetSilenceTimer on the object sid
silenceCallback(w, sid) ==
  LET contextId == w.heap[sid].contextId
      w1 == [w EXCEPT !.heap[sid].silenceTimer = FiredTimer]
      cur == mapGet(w1.queues, contextId)
  IN IF cur = NoState \/ w1.heap[cur].messages = <<>> THEN w1
     ELSE flushQueue(w1, contextId, "silence_trigger")

clear(w) ==
  [w EXCEPT !.heap = [sid \in StateIds |->
                        IF \E i \in 1..Len(w.queues) : w.queues[i][2] = sid
                        THEN [@[sid] EXCEPT !.silenceTimer = NoTimer]
                        ELSE @[sid]],
            !.queues = <<>>,
            !.processingContexts = {},
            !.events = Append(@, Event("log_cleared", "none"))]

\* the finally block of flushQueue
finallyBlock_KeepsProcessing(w, sid, contextId) ==
  [w EXCEPT
     !.processingContexts = @ \ {contextId},
     !.queues = IF w.heap[sid].messages = <<>>
                   /\ w.heap[sid].silenceTimer = NoTimer
                THEN mapDelete(@, contextId) ELSE @]

finallyBlock(w, sid, contextId) ==
  [w EXCEPT
     !.heap[sid].isProcessing = FALSE,
     !.processingContexts = @ \ {contextId},
     !.queues = IF w.heap[sid].messages = <<>>
                   /\ w.heap[sid].silenceTimer = NoTimer
                THEN mapDelete(@, contextId) ELSE @]

\* what flushQueue does once the processMessages call it awaits on the
\* object sid has settled: the try branch or the catch branch, then finally
finishFlush(w, sid, ok) ==
  LET call == w.inflight[sid]
      n == Len(call.messages)
      w1 == [w EXCEPT
               !.inflight[sid] = NoCall,
               !.events = Append(@, Event(IF ok THEN "onQueueFlushed"
                                          ELSE "onQueueError", call.reason)),
               !.ret = Append(@, Result(call.contextId, ok, n, call.reason,
                                        ~ok))]
  IN finallyBlock(w1, sid, call.contextId)

\* the loop of flush() over the contexts, up to its next await that suspends
RECURSIVE flushLoop(_, _)
flushLoop(w, ids) ==
  IF ids = <<>> THEN [w |-> w, ids |-> <<>>, call |-> NoState]
  ELSE LET w1 == flushQueue(w, Head(ids), "manual_trigger")
           sid == mapGet(w.queues, Head(ids))
       IN IF sid # NoState /\ w.inflight[sid] = NoCall /\ w1.inflight[sid] # NoCall
          THEN [w |-> w1, ids |-> Tail(ids), call |-> sid]
          ELSE flushLoop(w1, Tail(ids))

(* --------------------------- api key manager --------------------------- *)
apiKeys == <<"A", "B">>

NoKey == ""
NoBlock == -1

FreshStatus ==
  [isBlocked |-> FALSE, errorCount |-> 0, lastErrorTime |-> 0,
   blockStartTime |-> NoBlock, firstErrorTime |-> 0]

\* a manager: the status map and the rotation cursor
Manager(st, idx) == [keyStatus |-> st, currentKeyIndex |-> idx]

\* the keys of keyStatus in insertion order
keyAt(index) == apiKeys[index + 1]

\* blockStartTime is tested for truth: null and 0 fail the test
truthy(blockStartTime) == blockStartTime # NoBlock /\ blockStartTime # 0

cleanExpiredBlocks_Inclusive(st, now) ==
  [key \in DOMAIN st |->
     IF st[key].isBlocked /\ truthy(st[key].blockStartTime)
          /\ now - st[key].blockStartTime >= BLOCK_DURATION_MS
     THEN [st[key] EXCEPT !.isBlocked = FALSE, !.blockStartTime = NoBlock,
                          !.errorCount = 0]
     ELSE st[key]]

cleanExpiredBlocks(st, now) ==
  [key \in DOMAIN st |->
     IF st[key].isBlocked /\ truthy(st[key].blockStartTime)
          /\ now - st[key].blockStartTime > BLOCK_DURATION_MS
     THEN [st[key] EXCEPT !.isBlocked = FALSE, !.blockStartTime = NoBlock,
                          !.errorCount = 0]
     ELSE st[key]]

getAvailableKeysCount(st) ==
  Cardinality({key \in DOMAIN st : ~st[key].isBlocked})

\* the offsets i of a rotation loop whose key is not blocked
openOffsets(m, from) ==
  {i \in from..(Len(apiKeys) - 1) :
     ~m.keyStatus[keyAt((m.currentKeyIndex + i) % Len(apiKeys))].isBlocked}

firstOpen(m, from) ==
  LET i == CHOOSE x \in openOffsets(m, from) :
             \A y \in openOffsets(m, from) : x <= y
  IN (m.currentKeyIndex + i) % Len(apiKeys)

getEarliestBlockedKey_Latest(st) ==
  LET blocked == {i \in 1..Len(apiKeys) :
                    st[apiKeys[i]].isBlocked
                      /\ truthy(st[apiKeys[i]].blockStartTime)}
  IN IF blocked = {} THEN NoKey
     ELSE apiKeys[CHOOSE i \in blocked :
                    \A j \in blocked :
                      \/ st[apiKeys[i]].blockStartTime
                           > st[apiKeys[j]].blockStartTime
                      \/ st[apiKeys[i]].blockStartTime
                           = st[apiKeys[j]].blockStartTime /\ i <= j]

\* the first key, in insertion order, among those blocked earliest
getEarliestBlockedKey(st) ==
  LET blocked == {i \in 1..Len(apiKeys) :
                    st[apiKeys[i]].isBlocked
                      /\ truthy(st[apiKeys[i]].blockStartTime)}
  IN IF blocked = {} THEN NoKey
     ELSE apiKeys[CHOOSE i \in blocked :
                    \A j \in blocked :
                      \/ st[apiKeys[i]].blockStartTime
                           < st[apiKeys[j]].blockStartTime
                      \/ st[apiKeys[i]].blockStartTime
                           = st[apiKeys[j]].blockStartTime /\ i <= j]

\* getCurrentApiKey: the manager it leaves and the key it returns
getCurrentApiKey(m, now) ==
  LET m1 == [m EXCEPT !.keyStatus = cleanExpiredBlocks(@, now)] IN
  IF openOffsets(m1, 0) # {}
  THEN LET keyIndex == firstOpen(m1, 0)
       IN [m |-> [m1 EXCEPT !.currentKeyIndex = keyIndex],
           key |-> keyAt(keyIndex)]
  ELSE LET earliestBlockedKey == getEarliestBlockedKey(m1.keyStatus)
       IN [m |-> m1,
           key |-> IF earliestBlockedKey # NoKey THEN earliestBlockedKey
                   ELSE apiKeys[1]]

switchToNextKey(m) ==
  IF openOffsets(m, 1) # {} THEN [m EXCEPT !.currentKeyIndex = firstOpen(m, 1)]
  ELSE m

blockApiKey(m, apiKey, now) ==
  LET m1 == [m EXCEPT !.keyStatus[apiKey].isBlocked = TRUE,
                      !.keyStatus[apiKey].blockStartTime = now]
  IN IF getAvailableKeysCount(m1.keyStatus) > 0 THEN switchToNextKey(m1)
     ELSE m1

\* the test that restarts the count of a key
windowExpired(status, now) == now - status.lastErrorTime > ERROR_WINDOW_MS

shouldBlock(errorCount) == errorCount >= MAX_ERRORS_IN_WINDOW

recordError_RestartUnblocks(m, apiKey, is429Error, now) ==
  IF ~is429Error THEN m
  ELSE LET status == m.keyStatus[apiKey]
           base == IF windowExpired(status, now) THEN 0 ELSE status.errorCount
           m1 == [m EXCEPT
                    !.keyStatus[apiKey].errorCount = base + 1,
                    !.keyStatus[apiKey].lastErrorTime = now,
                    !.keyStatus[apiKey].isBlocked =
                       IF base = 0 THEN FALSE ELSE @,
                    !.keyStatus[apiKey].firstErrorTime =
                       IF base = 0 THEN now ELSE @]
       IN IF shouldBlock(base + 1) THEN blockApiKey(m1, apiKey, now) ELSE m1

\* recordError for a key of the map; firstErrorTime is not a field of the
\* code, it remembers when the count last went from 0 to 1
recordError(m, apiKey, is429Error, now) ==
  IF ~is429Error THEN m
  ELSE LET status == m.keyStatus[apiKey]
           base == IF windowExpired(status, now) THEN 0 ELSE status.errorCount
           m1 == [m EXCEPT
                    !.keyStatus[apiKey].errorCount = base + 1,
                    !.keyStatus[apiKey].lastErrorTime = now,
                    !.keyStatus[apiKey].firstErrorTime =
                       IF base = 0 THEN now ELSE @]
       IN IF shouldBlock(base + 1) THEN blockApiKey(m1, apiKey, now) ELSE m1

resetApiKey(m, apiKey) ==
  [m EXCEPT !.keyStatus[apiKey] = FreshStatus]

resetAllKeyStatus(m) ==
  [m EXCEPT !.keyStatus =
     [key \in DOMAIN @ |->
        IF @[key].isBlocked \/ @[key].errorCount > 0 THEN FreshStatus
        ELSE @[key]]]

\* switchToNext: the manager it leaves (the key it returns is not read)
switchToNext(m, now) ==
  switchToNextKey([m EXCEPT !.keyStatus = cleanExpiredBlocks(@, now)])

(* ---------------------------- gemini client ----------------------------- *)
\* the errors the remote model call can raise, by what the tests on them see
Errors == {"429", "api key", "other"}

is429Error(error) == error = "429"

shouldSwitchKey(error) == error = "429" \/ error = "api key"

\* JSON.parse of a model text: the object it yields, or a SyntaxError
NotJson == [ok |-> FALSE, messages |-> <<>>, thinking |-> <<>>,
            reason |-> <<>>]

Json(messages, thinking, reason) ==
  [ok |-> TRUE, messages |-> messages, thinking |-> thinking,
   reason |-> reason]

\* the texts the model can answer with: the characters and what they parse to
Texts ==
  { [raw |-> <<"{", "2", "}">>,
     parsed |-> Json(<<<<"h", "i">>, <<"y", "o">>>>, <<"t">>, <<>>)],
    [raw |-> <<"{", "b", "}">>,
     parsed |-> Json(<<<<"h", "i">>, <<" ">>>>, <<>>, <<>>)],
    [raw |-> <<"{", "n", "}">>,
     parsed |-> Json(<<>>, <<"t">>, <<"b", "u", "s", "y">>)],
    [raw |-> <<"{", "}">>, parsed |-> Json(<<>>, <<>>, <<>>)],
    [raw |-> <<"n", "o">>, parsed |-> NotJson],
    [raw |-> <<" ", "n", "o", " ">>, parsed |-> NotJson],
    [raw |-> <<>>, parsed |-> NotJson] }

\* what parseTextResponse returns: absent fields are empty
Parsed(messages, thinking, reason) ==
  [messages |-> messages, thinking |-> thinking, reason |-> reason]

parseTextResponse(text) ==
  IF text.raw = <<>> THEN Parsed(<<>>, <<>>, <<>>)
  ELSE IF text.parsed.ok
            /\ (text.parsed.messages # <<>> \/ text.parsed.thinking # <<>>
                  \/ text.parsed.reason # <<>>)
  THEN Parsed(text.parsed.messages, text.parsed.thinking, text.parsed.reason)
  ELSE IF trim(text.raw) # <<>> THEN Parsed(<<trim(text.raw)>>, <<>>, <<>>)
  ELSE Parsed(<<>>, <<>>, <<>>)

\* a ChatTask: content is the text of a thinking task, replies that of a reply
ThinkingTask(content) ==
  [type |-> "thinking", content |-> content, replies |-> <<>>]

ReplyTask(replies) ==
  [type |-> "reply", content |-> <<>>, replies |-> replies]

defaultThinking == <<".", ".", ".">>
noReplyPrefix == <<"n", "o", ":">>

\* the ChatResponse generateResponse builds from the text of the model
generateResponse(text) ==
  LET result == parseTextResponse(text)
      hasMessages == result.messages # <<>>
  IN [content |-> IF hasMessages THEN result.messages[1] ELSE <<>>,
      thinking |-> IF result.thinking # <<>> THEN result.thinking
                   ELSE defaultThinking,
      skipReply |-> ~hasMessages /\ result.reason # <<>>,
      replies |-> result.messages,
      tasks |-> IF hasMessages THEN <<ReplyTask(result.messages)>>
                ELSE IF result.reason # <<>>
                THEN <<ThinkingTask(noReplyPrefix \o result.reason)>>
                ELSE <<>>]

NoResponse ==
  [content |-> <<>>, thinking |-> <<>>, skipReply |-> FALSE,
   replies |-> <<>>, tasks |-> <<>>]

\* the for loop of executeWithRetry goes on after a failed attempt
retriesLeft_OneMore(attempt) == attempt <= MAX_RETRIES

retriesLeft(attempt) == attempt < MAX_RETRIES

\* getStatus as the final error log of executeWithRetry calls it
getStatus(m, now) ==
  getCurrentApiKey([m EXCEPT !.keyStatus = cleanExpiredBlocks(@, now)],
                   now).m

NoText == [raw |-> <<>>, parsed |-> NotJson]

\* the client as its constructor leaves it: initializeClient has asked the
\* fresh key manager for its current key
NewClient ==
  [currentApiKey |-> apiKeys[1], state |-> "idle", attempt |-> 0,
   invocations |-> 0, lastError |-> "none", text |-> NoText,
   response |-> NoResponse, calls |-> 0]

(* ------------------------------ task queue ------------------------------ *)
NoTask == 0

\* running and retrying hold the tasks of the processQueue loops that await
\* a handler or a retry delay; log lists the handler invocations in order;
\* tasks keeps every task enqueued, a task id is its index
NewTaskQueue ==
  [queue |-> <<>>, tasks |-> <<>>, isProcessing |-> FALSE,
   stopRequested |-> FALSE, running |-> {}, retrying |-> {},
   shutdown |-> "none", log |-> <<>>]

Options(priority, maxAttempts) ==
  [priority |-> priority, maxAttempts |-> maxAttempts]

\* options = {}: maxAttempts ?? 3
defaultOptions == Options("normal", DEFAULT_MAX_ATTEMPTS)

Payload(message, target, pendingMessageId, flush) ==
  [message |-> message, target |-> target,
   pendingMessageId |-> pendingMessageId, flush |-> flush]

\* task.resolve() and task.reject(): a promise keeps its first settlement
resolve(q, id) ==
  [q EXCEPT !.tasks[id].future = IF @ = "pending" THEN "resolved" ELSE @,
            !.tasks[id].settles = @ + 1]

reject(q, id) ==
  [q EXCEPT !.tasks[id].future = IF @ = "pending" THEN "rejected" ELSE @,
            !.tasks[id].settles = @ + 1]

\* the while loop of processQueue up to its next await, or to its end; the
\* test that follows the loop is false whenever the loop has ended
runLoop_TakesLast(q) ==
  IF ~q.stopRequested /\ q.queue # <<>>
  THEN LET id == q.queue[Len(q.queue)]
       IN [q EXCEPT !.queue = SubSeq(@, 1, Len(@) - 1),
                    !.tasks[id].attempts = @ + 1,
                    !.running = @ \cup {id},
                    !.log = Append(@, id)]
  ELSE [q EXCEPT !.isProcessing = FALSE]

runLoop(q) ==
  IF ~q.stopRequested /\ q.queue # <<>>
  THEN LET id == Head(q.queue)
       IN [q EXCEPT !.queue = Tail(@),
                    !.tasks[id].attempts = @ + 1,
                    !.running = @ \cup {id},
                    !.log = Append(@, id)]
  ELSE [q EXCEPT !.isProcessing = FALSE]

processQueue(q) ==
  IF q.isProcessing \/ q.stopRequested THEN q
  ELSE runLoop([q EXCEPT !.isProcessing = TRUE])

\* enqueue with a handler registered for the type; the id of the new task
\* is Len(tasks) of the queue it returns
enqueue(q, type, payload, options) ==
  LET id == Len(q.tasks) + 1
      task == [type |-> type, payload |-> payload, attempts |-> 0,
               maxAttempts |-> options.maxAttempts,
               priority |-> options.priority, future |-> "pending",
               settles |-> 0]
  IN processQueue(
       [q EXCEPT !.tasks = Append(@, task),
                 !.queue = IF options.priority = "high" THEN <<id>> \o @
                           ELSE Append(@, id)])

handlerReturned_LeavesTheLoop(q, id) ==
  resolve([q EXCEPT !.running = @ \ {id}, !.isProcessing = FALSE], id)

\* await handler(task) returns
handlerReturned(q, id) ==
  runLoop(resolve([q EXCEPT !.running = @ \ {id}], id))

mayRetry_OnceMore(task) == task.attempts <= task.maxAttempts

mayRetry(task) == task.attempts < task.maxAttempts

\* await handler(task) throws; the default retryDelayStrategy is positive
handlerThrew(q, id) ==
  IF mayRetry(q.tasks[id])
  THEN [q EXCEPT !.running = @ \ {id}, !.retrying = @ \cup {id}]
  ELSE runLoop(reject([q EXCEPT !.running = @ \ {id}], id))

\* the retry delay is over
retryDelayOver(q, id) ==
  runLoop([q EXCEPT !.retrying = @ \ {id}, !.queue = <<id>> \o @])

\* shutdown up to the first test of its polling loop
shutdown(q) == [q EXCEPT !.stopRequested = TRUE, !.shutdown = "waiting"]

(* ----------------------------- agent server ----------------------------- *)
\* batch: the ids of the messages the agent has passed to the queue and that
\* no flush has taken; flushes: the handleQueueFlushResult calls so far
NewAgent ==
  [pendingReplies |-> {}, batch |-> <<>>, nextId |-> 1, flushes |-> <<>>,
   outbound |-> <<>>, reports |-> 0]

REPLY_LIMIT == 1000

\* QQMessageAdapter.formatReply
formatReply(content) ==
  IF Len(content) > REPLY_LIMIT
  THEN SubSeq(content, 1, REPLY_LIMIT - 3) \o <<".", ".", ".">>
  ELSE content

\* replies.map(trim).filter(nonempty)
trimmedReplies(replies) ==
  SelectSeq([i \in 1..Len(replies) |-> trim(replies[i])],
            LAMBDA reply : reply # <<>>)

\* one task of response.tasks: the tasks it leaves, none or one
normalizeTask(task) ==
  IF task.type = "thinking"
  THEN IF trim(task.content) # <<>>
       THEN <<ThinkingTask(trim(task.content))>> ELSE <<>>
  ELSE IF trimmedReplies(task.replies) # <<>>
       THEN <<ReplyTask(trimmedReplies(task.replies))>> ELSE <<>>

RECURSIVE normalizeTasks(_)
normalizeTasks(tasks) ==
  IF tasks = <<>> THEN <<>>
  ELSE normalizeTask(Head(tasks)) \o normalizeTasks(Tail(tasks))

normalizeChatTasks(response) ==
  IF response.tasks # <<>> THEN normalizeTasks(response.tasks)
  ELSE LET fallbackReplies ==
             trimmedReplies(response.replies
                              \o IF response.content # <<>>
                                 THEN <<response.content>> ELSE <<>>)
       IN (IF trim(response.thinking) # <<>>
           THEN <<ThinkingTask(trim(response.thinking))>> ELSE <<>>)
          \o (IF fallbackReplies # <<>>
              THEN <<ReplyTask(fallbackReplies)>> ELSE <<>>)

\* the enqueue calls enqueueChatTasks makes for one task, in order
itemsOf_Reversed(task) ==
  IF task.type = "thinking" THEN <<task>>
  ELSE [i \in 1..Len(task.replies) |->
          [type |-> "reply",
           content |-> task.replies[Len(task.replies) + 1 - i],
           replies |-> task.replies]]

itemsOf(task) ==
  IF task.type = "thinking" THEN <<task>>
  ELSE [i \in 1..Len(task.replies) |->
          [type |-> "reply", content |-> task.replies[i],
           replies |-> task.replies]]

RECURSIVE enqueueItems(_)
enqueueItems(tasks) ==
  IF tasks = <<>> THEN <<>>
  ELSE itemsOf(Head(tasks)) \o enqueueItems(Tail(tasks))

getPendingRepliesForMessages(a, messageIds) ==
  SelectSeq(messageIds, LAMBDA id : id \in a.pendingReplies)

removePendingReply(a, messageId) ==
  [a EXCEPT !.pendingReplies = @ \ {messageId}]

\* the services a step of the agent or of the task queue works on
Services(q, a) == [q |-> q, a |-> a]

enqueueItem_FirstPending(s, f, i) ==
  LET flush == s.a.flushes[f]
      item == flush.items[i]
      primaryPending == flush.pending[1]
      q == IF item.type = "thinking"
           THEN enqueue(s.q, "store_memory",
                        Payload(item.content, NoTask, NoTask, f),
                        defaultOptions)
           ELSE enqueue(s.q, "send_message",
                        Payload(formatReply(item.content), primaryPending,
                                primaryPending, f),
                        defaultOptions)
  IN Services(q, [s.a EXCEPT !.flushes[f].pos = i,
                             !.flushes[f].awaiting = Len(q.tasks)])

\* enqueueThinkingTask or sendReply of item i of flush f, up to the await
enqueueItem(s, f, i) ==
  LET flush == s.a.flushes[f]
      item == flush.items[i]
      primaryPending == flush.pending[Len(flush.pending)]
      q == IF item.type = "thinking"
           THEN enqueue(s.q, "store_memory",
                        Payload(item.content, NoTask, NoTask, f),
                        defaultOptions)
           ELSE enqueue(s.q, "send_message",
                        Payload(formatReply(item.content), primaryPending,
                                primaryPending, f),
                        defaultOptions)
  IN Services(q, [s.a EXCEPT !.flushes[f].pos = i,
                             !.flushes[f].awaiting = Len(q.tasks)])

\* the end of enqueueChatTasks: the pending entries but the primary one go
finishEnqueue(s, f) ==
  LET flush == s.a.flushes[f]
      primaryId == flush.pending[Len(flush.pending)]
      others == {flush.pending[i] : i \in 1..Len(flush.pending)}
                  \ {primaryId}
  IN Services(s.q, [s.a EXCEPT !.pendingReplies = @ \ others,
                               !.flushes[f].state = "done",
                               !.flushes[f].awaiting = NoTask])

FlushRun(messageIds, response, pending, items, state) ==
  [messageIds |-> messageIds, response |-> response, pending |-> pending,
   items |-> items, pos |-> 0, awaiting |-> NoTask, state |-> state]

\* handleQueueFlushResult up to its first await
handleQueueFlushResult(s, result) ==
  LET f == Len(s.a.flushes) + 1
      chatTasks == normalizeChatTasks(result.response)
      pendingReplies == getPendingRepliesForMessages(s.a, result.messageIds)
      begin(flush) ==
        Services(s.q, [s.a EXCEPT !.flushes = Append(@, flush)])
  IN IF ~result.processed \/ result.response.skipReply
     THEN begin(FlushRun(result.messageIds, result.response, <<>>, <<>>,
                         "skipped"))
     ELSE IF pendingReplies = <<>>
     THEN begin(FlushRun(result.messageIds, result.response, <<>>, <<>>,
                         "unmatched"))
     ELSE IF chatTasks = <<>>
     THEN LET s1 == begin(FlushRun(result.messageIds, result.response,
                                   pendingReplies, <<>>, "empty"))
          IN Services(s1.q,
                      [s1.a EXCEPT !.pendingReplies =
                         @ \ {pendingReplies[i] :
                                i \in 1..Len(pendingReplies)}])
     ELSE enqueueItem(begin(FlushRun(result.messageIds, result.response,
                                     pendingReplies,
                                     enqueueItems(chatTasks), "enqueuing")),
                      f, 1)

flushResumes_KeepsPending(s, f) ==
  LET flush == s.a.flushes[f]
      item == flush.items[flush.pos]
      failed == s.q.tasks[flush.awaiting].future = "rejected"
      a1 == IF failed /\ item.type = "reply"
            THEN [s.a EXCEPT !.reports = @ + 1]
            ELSE s.a
      s1 == Services(s.q, a1)
  IN IF flush.pos < Len(flush.items) THEN enqueueItem(s1, f, flush.pos + 1)
     ELSE finishEnqueue(s1, f)

\* the awaited enqueue of flush f has settled: the catch blocks of sendReply
\* and enqueueChatTasks when it was rejected, then the next item or the end
flushResumes(s, f) ==
  LET flush == s.a.flushes[f]
      item == flush.items[flush.pos]
      failed == s.q.tasks[flush.awaiting].future = "rejected"
      a1 == IF failed /\ item.type = "reply"
            THEN [removePendingReply(s.a, flush.pending[Len(flush.pending)])
                    EXCEPT !.reports = @ + 1]
            ELSE s.a
      s1 == Services(s.q, a1)
  IN IF flush.pos < Len(flush.items) THEN enqueueItem(s1, f, flush.pos + 1)
     ELSE finishEnqueue(s1, f)

\* the handler of task id returns: send_message has sent and clears the
\* pending entry, store_memory has logged
handlerReturns(s, id) ==
  LET task == s.q.tasks[id]
      a1 == IF task.type = "send_message"
            THEN [removePendingReply(s.a, task.payload.pendingMessageId)
                    EXCEPT !.outbound = Append(@, task.payload)]
            ELSE s.a
  IN Services(handlerReturned(s.q, id), a1)

(* ----------------------------- actions --------------------------------- *)
World ==
  [queues |-> queues, heap |-> heap, processingContexts |-> processingContexts,
   inflight |-> inflight, handed |-> handed, ret |-> <<>>,
   events |-> <<>>]

Install(w) ==
  LET g == Collect(w) IN
  /\ queues' = g.queues
  /\ heap' = g.heap
  /\ processingContexts' = g.processingContexts
  /\ inflight' = g.inflight
  /\ handed' = g.handed
  /\ ret' = g.ret
  /\ events' = g.events

FreeState(w) == \E sid \in StateIds : ~Live(w, sid)

Idle == [state |-> "idle", ids |-> <<>>, call |-> NoState]

Init ==
  /\ clock = 0
  /\ queues = <<>>
  /\ heap = [sid \in StateIds |-> Blank]
  /\ processingContexts = {}
  /\ stamina = [currentStamina |-> MaxC, momentum |-> 0, restMode |-> FALSE,
                lastUpdateTime |-> 0]
  /\ nextRegen = regenIntervalSeconds
  /\ inflight = [sid \in StateIds |-> NoCall]
  /\ handed = {}
  /\ ret = <<>>
  /\ events = <<>>
  /\ nextMsg = 1
  /\ flushAllPc = Idle
  /\ adminOps = 0
  /\ keyStatus = [key \in {apiKeys[i] : i \in 1..Len(apiKeys)} |-> FreshStatus]
  /\ currentKeyIndex = 0
  /\ keyNow = 1
  /\ acquired = NoKey
  /\ client = NewClient
  /\ taskQueue = NewTaskQueue
  /\ agent = NewAgent

AddMessage(address, shape) ==
  /\ nextMsg <= MaxMsgs
  /\ mapHas(queues, getContextId(address)) \/ FreeState(World)
  /\ Install(addMessage(World, nextMsg, address, shape))
  /\ nextMsg' = nextMsg + 1
  /\ UNCHANGED <<restVars, clock, stamina, nextRegen, flushAllPc, adminOps>>

SilenceTimerFires(sid) ==
  /\ heap[sid].silenceTimer >= 0
  /\ heap[sid].silenceTimer <= clock
  /\ Install(silenceCallback(World, sid))
  /\ UNCHANGED <<restVars, clock, stamina, nextRegen, nextMsg, flushAllPc,
                 adminOps>>

ProcessMessagesSettles_ConsumesAlways(sid, ok) ==
  /\ inflight[sid] # NoCall
  /\ Install(finishFlush(World, sid, ok))
  /\ stamina' = consumeStamina(stamina, Len(inflight[sid].messages), clock)
  /\ flushAllPc' = IF flushAllPc.state = "await" /\ flushAllPc.call = sid
                   THEN [flushAllPc EXCEPT !.state = "ready", !.call = NoState]
                   ELSE flushAllPc
  /\ UNCHANGED <<restVars, clock, nextRegen, nextMsg, adminOps>>

\* processMessages resolves (ok) or throws; a flush() loop awaiting this
\* call becomes ready to go on
ProcessMessagesSettles(sid, ok) ==
  /\ inflight[sid] # NoCall
  /\ Install(finishFlush(World, sid, ok))
  /\ stamina' = IF ok
                THEN consumeStamina(stamina, Len(inflight[sid].messages), clock)
                ELSE stamina
  /\ flushAllPc' = IF flushAllPc.state = "await" /\ flushAllPc.call = sid
                   THEN [flushAllPc EXCEPT !.state = "ready", !.call = NoState]
                   ELSE flushAllPc
  /\ UNCHANGED <<restVars, clock, nextRegen, nextMsg, adminOps>>

\* flush(contextId)
flushContext(contextId) ==
  /\ adminOps' = adminOps + 1
  /\ Install(flushQueue(World, contextId, "manual_trigger"))
  /\ UNCHANGED <<restVars, clock, stamina, nextRegen, nextMsg, flushAllPc>>

Flush(contextId) == adminOps < MaxAdmin /\ flushContext(contextId)

FlushAllContinue(ids) ==
  LET r == flushLoop(World, ids) IN
  /\ Install(r.w)
  /\ flushAllPc' = IF r.call = NoState THEN Idle
                   ELSE [state |-> "await", ids |-> r.ids, call |-> r.call]

\* flush() without a context: the loop over the keys of the map
flushEvery ==
  /\ flushAllPc.state = "idle"
  /\ adminOps' = adminOps + 1
  /\ FlushAllContinue(mapKeys(queues))
  /\ UNCHANGED <<restVars, clock, stamina, nextRegen, nextMsg>>

FlushAll == adminOps < MaxAdmin /\ flushEvery

FlushAllResumes ==
  /\ flushAllPc.state = "ready"
  /\ FlushAllContinue(flushAllPc.ids)
  /\ UNCHANGED <<restVars, clock, stamina, nextRegen, nextMsg, adminOps>>

clearAll ==
  /\ adminOps' = adminOps + 1
  /\ Install(clear(World))
  /\ UNCHANGED <<restVars, clock, stamina, nextRegen, nextMsg, flushAllPc>>

Clear == adminOps < MaxAdmin /\ clearAll

StaminaValues == {0, 5, 100}

AdjustStamina(value) ==
  /\ adminOps < MaxAdmin
  /\ adminOps' = adminOps + 1
  /\ stamina' = setStamina(stamina, value)
  /\ events' = <<>>
  /\ ret' = <<>>
  /\ UNCHANGED <<restVars, clock, queues, heap, processingContexts, nextRegen,
                 inflight, handed, nextMsg, flushAllPc>>

SetStaminaRestMode(enabled) ==
  /\ adminOps < MaxAdmin
  /\ adminOps' = adminOps + 1
  /\ stamina' = setRestMode(stamina, enabled)
  /\ events' = <<>>
  /\ ret' = <<>>
  /\ UNCHANGED <<restVars, clock, queues, heap, processingContexts, nextRegen,
                 inflight, handed, nextMsg, flushAllPc>>

\* the setInterval callback of startContinuousUpdate
StaminaTick ==
  /\ clock >= nextRegen
  /\ nextRegen' = clock + regenIntervalSeconds
  /\ stamina' = update([stamina EXCEPT !.lastUpdateTime = clock], 0,
                       clock - stamina.lastUpdateTime)
  /\ events' = <<>>
  /\ ret' = <<>>
  /\ UNCHANGED <<restVars, clock, queues, heap, processingContexts, inflight,
                 handed, nextMsg, flushAllPc, adminOps>>

\* a second passes; timers that are due fire first
Tick ==
  /\ clock < MaxTime
  /\ nextRegen > clock
  /\ \A sid \in StateIds :
        heap[sid].silenceTimer >= 0 => heap[sid].silenceTimer > clock
  /\ clock' = clock + 1
  /\ events' = <<>>
  /\ ret' = <<>>
  /\ UNCHANGED <<restVars, queues, heap, processingContexts, stamina, nextRegen,
                 inflight, handed, nextMsg, flushAllPc, adminOps>>

Next ==
  \/ \E a \in Addresses, s \in Shapes : AddMessage(a, s)
  \/ \E sid \in StateIds : SilenceTimerFires(sid)
  \/ \E sid \in StateIds, ok \in BOOLEAN : ProcessMessagesSettles(sid, ok)
  \/ \E c \in Contexts : Flush(c)
  \/ FlushAll
  \/ FlushAllResumes
  \/ Clear
  \/ \E v \in StaminaValues : AdjustStamina(v)
  \/ \E b \in BOOLEAN : SetStaminaRestMode(b)
  \/ StaminaTick
  \/ Tick

Spec == Init /\ [][Next]_vars

(* The same manager with stamina left to its background ticks, where the   *)
(* administrator may issue MaxOps operations: flush and clear repeated.    *)
OpsShapes ==
  {s \in Shapes : /\ s.content \in {<<"h", "i">>, <<"@", "F", "b", " ">>}
                  /\ s.type = "text"}

OpsFlush(contextId) == adminOps < MaxOps /\ flushContext(contextId)

OpsFlushAll == adminOps < MaxOps /\ flushEvery

OpsClear == adminOps < MaxOps /\ clearAll

NextOps ==
  \/ \E a \in Addresses, s \in OpsShapes : AddMessage(a, s)
  \/ \E sid \in StateIds : SilenceTimerFires(sid)
  \/ \E sid \in StateIds, ok \in BOOLEAN : ProcessMessagesSettles(sid, ok)
  \/ \E c \in Contexts : OpsFlush(c)
  \/ OpsFlushAll
  \/ FlushAllResumes
  \/ OpsClear
  \/ StaminaTick
  \/ Tick

SpecOps == Init /\ [][NextOps]_vars

(* The stamina manager on its own: its public methods called in any order, *)
(* and an interval callback that a busy event loop may run late.           *)
Intensities == {1, 3, 120}

StaminaInputs == StaminaValues \cup {-5, 250}

queueVars ==
  <<queues, heap, processingContexts, inflight, handed, nextMsg, flushAllPc>>

StaminaCall(s) ==
  /\ adminOps < MaxStaminaOps
  /\ adminOps' = adminOps + 1
  /\ stamina' = s
  /\ events' = <<>>
  /\ ret' = <<>>
  /\ UNCHANGED <<restVars, clock, nextRegen, queueVars>>

ConsumeStamina(messageCount) ==
  StaminaCall(consumeStamina(stamina, messageCount, clock))

SetStamina(value) == StaminaCall(setStamina(stamina, value))

SetRestMode(enabled) == StaminaCall(setRestMode(stamina, enabled))

StaminaSecond ==
  /\ clock < MaxStaminaTime
  /\ clock' = clock + 1
  /\ events' = <<>>
  /\ ret' = <<>>
  /\ UNCHANGED <<restVars, stamina, nextRegen, adminOps, queueVars>>

NextStamina ==
  \/ \E n \in Intensities : ConsumeStamina(n)
  \/ \E v \in StaminaInputs : SetStamina(v)
  \/ \E b \in BOOLEAN : SetRestMode(b)
  \/ StaminaTick
  \/ StaminaSecond

StaminaSpec == Init /\ [][NextStamina]_vars

(* The api key manager on its own.                                          *)
KeyManager == Manager(keyStatus, currentKeyIndex)

InstallKeys(m) ==
  /\ keyStatus' = m.keyStatus
  /\ currentKeyIndex' = m.currentKeyIndex

GetCurrentApiKey ==
  LET r == getCurrentApiKey(KeyManager, keyNow) IN
  /\ InstallKeys(r.m)
  /\ acquired' = r.key
  /\ UNCHANGED <<keyNow, managerVars, serviceVars>>

RecordError(apiKey, rateLimited) ==
  /\ keyStatus[apiKey].errorCount < MaxErrorCount
  /\ InstallKeys(recordError(KeyManager, apiKey, rateLimited, keyNow))
  /\ acquired' = NoKey
  /\ UNCHANGED <<keyNow, managerVars, serviceVars>>

ResetApiKey(apiKey) ==
  /\ InstallKeys(resetApiKey(KeyManager, apiKey))
  /\ acquired' = NoKey
  /\ UNCHANGED <<keyNow, managerVars, serviceVars>>

\* the timer set for midnight
DailyReset ==
  /\ InstallKeys(resetAllKeyStatus(KeyManager))
  /\ acquired' = NoKey
  /\ UNCHANGED <<keyNow, managerVars, serviceVars>>

SwitchToNext ==
  /\ InstallKeys(switchToNext(KeyManager, keyNow))
  /\ acquired' = NoKey
  /\ UNCHANGED <<keyNow, managerVars, serviceVars>>

\* getStatus(): the sweep and the call of getCurrentApiKey it ends with
GetStatus ==
  /\ InstallKeys(getStatus(KeyManager, keyNow))
  /\ acquired' = NoKey
  /\ UNCHANGED <<keyNow, managerVars, serviceVars>>

KeyTimePasses ==
  /\ keyNow < MaxKeyTime
  /\ keyNow' = keyNow + 1
  /\ acquired' = NoKey
  /\ UNCHANGED <<keyStatus, currentKeyIndex, managerVars, serviceVars>>

NextKeys ==
  \/ GetCurrentApiKey
  \/ \E i \in 1..Len(apiKeys), b \in BOOLEAN : RecordError(apiKeys[i], b)
  \/ \E i \in 1..Len(apiKeys) : ResetApiKey(apiKeys[i])
  \/ DailyReset
  \/ SwitchToNext
  \/ GetStatus
  \/ KeyTimePasses

KeySpec == Init /\ [][NextKeys]_vars

(* The gemini client over the api key manager: one generateResponse call    *)
(* at a time, while time passes and the keys are reset from outside.        *)
\* generateResponse enters executeWithRetry, whose first attempt calls
\* generateContent
GenerateResponse ==
  /\ client.state \in {"idle", "returned", "thrown"}
  /\ client.calls < MaxCalls
  /\ client' = [client EXCEPT !.state = "operation", !.attempt = 1,
                              !.invocations = 1, !.lastError = "none",
                              !.text = NoText, !.response = NoResponse,
                              !.calls = @ + 1]
  /\ acquired' = NoKey
  /\ UNCHANGED <<keyStatus, currentKeyIndex, keyNow, managerVars, taskQueue,
                 agent>>

\* generateContent answers with a text: the operation parses it and returns
OperationReturns(text) ==
  /\ client.state = "operation"
  /\ client' = [client EXCEPT !.state = "returned", !.text = text,
                              !.response = generateResponse(text)]
  /\ acquired' = NoKey
  /\ UNCHANGED <<keyStatus, currentKeyIndex, keyNow, managerVars, taskQueue,
                 agent>>

\* generateContent rejects: the catch block of executeWithRetry, and after
\* the last attempt the error log with getStatus() and the throw
OperationThrows(error) ==
  LET m1 == recordError(KeyManager, client.currentApiKey, is429Error(error),
                        keyNow)
      switchApiKey == getCurrentApiKey(m1, keyNow)
      m2 == IF shouldSwitchKey(error) THEN switchApiKey.m ELSE m1
      again == retriesLeft(client.attempt)
  IN /\ client.state = "operation"
     /\ is429Error(error)
          => keyStatus[client.currentApiKey].errorCount < MaxErrorCount
     /\ client' = [client EXCEPT
                     !.currentApiKey = IF shouldSwitchKey(error)
                                       THEN switchApiKey.key ELSE @,
                     !.lastError = error,
                     !.state = IF again THEN "sleep" ELSE "thrown"]
     /\ InstallKeys(IF again THEN m2 ELSE getStatus(m2, keyNow))
     /\ acquired' = IF shouldSwitchKey(error) THEN switchApiKey.key ELSE NoKey
     /\ UNCHANGED <<keyNow, managerVars, taskQueue, agent>>

\* the retry delay is over: the next attempt calls generateContent
RetryDelayEnds ==
  /\ client.state = "sleep"
  /\ client' = [client EXCEPT !.state = "operation", !.attempt = @ + 1,
                              !.invocations = @ + 1]
  /\ acquired' = NoKey
  /\ UNCHANGED <<keyStatus, currentKeyIndex, keyNow, managerVars, taskQueue,
                 agent>>

NextClient ==
  \/ GenerateResponse
  \/ \E text \in Texts : OperationReturns(text)
  \/ \E error \in Errors : OperationThrows(error)
  \/ RetryDelayEnds
  \/ \E i \in 1..Len(apiKeys) : ResetApiKey(apiKeys[i])
  \/ DailyReset
  \/ KeyTimePasses

ClientSpec == Init /\ [][NextClient]_vars

(* The same client where the key manager, a singleton, is also used by the  *)
(* other GeminiClient instances, which report their errors to it, and by    *)
(* the administrator, who may advance the cursor.                           *)
SharedTexts == {text \in Texts : text.raw = <<"{", "2", "}">>}

SharedTimePasses == keyNow < MaxSharedTime /\ KeyTimePasses

NextShared ==
  \/ GenerateResponse
  \/ \E text \in SharedTexts : OperationReturns(text)
  \/ \E error \in Errors : OperationThrows(error)
  \/ RetryDelayEnds
  \/ \E i \in 1..Len(apiKeys), b \in BOOLEAN : RecordError(apiKeys[i], b)
  \/ \E i \in 1..Len(apiKeys) : ResetApiKey(apiKeys[i])
  \/ SwitchToNext
  \/ SharedTimePasses

SharedSpec == Init /\ [][NextShared]_vars

(* The task queue with the handlers the agent server registers, its public  *)
(* methods called with any options.                                         *)
TheServices == Services(taskQueue, agent)

InstallServices(s) ==
  /\ taskQueue' = s.q
  /\ agent' = s.a

Enqueue(type, priority, maxAttempts) ==
  /\ Len(taskQueue.tasks) < MaxTasks
  /\ taskQueue' = enqueue(taskQueue, type,
                          Payload(<<>>, NoTask, NoTask, NoTask),
                          Options(priority, maxAttempts))
  /\ UNCHANGED <<agent, client, keyVars, managerVars>>

\* the handler of a task in flight returns
HandlerReturns(id) ==
  /\ id \in taskQueue.running
  /\ InstallServices(handlerReturns(TheServices, id))
  /\ UNCHANGED <<client, keyVars, managerVars>>

\* the send_message handler throws: the send failed; the store_memory
\* handler catches what its logging throws
HandlerThrows(id) ==
  /\ id \in taskQueue.running
  /\ taskQueue.tasks[id].type = "send_message"
  /\ taskQueue' = handlerThrew(taskQueue, id)
  /\ UNCHANGED <<agent, client, keyVars, managerVars>>

RetryDelayOver(id) ==
  /\ id \in taskQueue.retrying
  /\ taskQueue' = retryDelayOver(taskQueue, id)
  /\ UNCHANGED <<agent, client, keyVars, managerVars>>

\* the agent's shutdown calls taskQueue.shutdown() and awaits it
Shutdown ==
  /\ taskQueue.shutdown = "none"
  /\ taskQueue' = shutdown(taskQueue)
  /\ UNCHANGED <<agent, client, keyVars, managerVars>>

\* the polling loop of shutdown finds isProcessing false: shutdown returns
\* and the agent's shutdown goes on to pendingReplies.clear()
ShutdownReturns ==
  /\ taskQueue.shutdown = "waiting"
  /\ ~taskQueue.isProcessing
  /\ taskQueue' = [taskQueue EXCEPT !.shutdown = "done"]
  /\ agent' = [agent EXCEPT !.pendingReplies = {}]
  /\ UNCHANGED <<client, keyVars, managerVars>>

TaskIds == 1..Len(taskQueue.tasks)

RunnerSteps ==
  \/ \E id \in TaskIds : HandlerReturns(id)
  \/ \E id \in TaskIds : HandlerThrows(id)
  \/ \E id \in TaskIds : RetryDelayOver(id)
  \/ Shutdown
  \/ ShutdownReturns

NextTasks ==
  \/ \E type \in {"send_message", "store_memory"},
        priority \in {"normal", "high"}, maxAttempts \in 1..MaxAttempts :
       Enqueue(type, priority, maxAttempts)
  \/ RunnerSteps

TaskSpec == Init /\ [][NextTasks]_vars

(* The task queue that is never shut down.  Every handler invocation ends, *)
(* by returning or by throwing, and the timer of a retry delay fires.      *)
HandlerEnds ==
  \E id \in TaskIds : HandlerReturns(id) \/ HandlerThrows(id)

RetryTimerFires == \E id \in TaskIds : RetryDelayOver(id)

NextRunner ==
  \/ \E type \in {"send_message", "store_memory"},
        priority \in {"normal", "high"}, maxAttempts \in 1..MaxAttempts :
       Enqueue(type, priority, maxAttempts)
  \/ HandlerEnds
  \/ RetryTimerFires

RunnerSpec ==
  /\ Init
  /\ [][NextRunner]_vars
  /\ WF_vars(HandlerEnds)
  /\ WF_vars(RetryTimerFires)

(* The agent server: messages arrive, the queue manager reports flushes,    *)
(* and the replies go out through the task queue.                           *)
\* handleQQMessage up to processMessage, which queues the message
Receive ==
  /\ agent.nextId <= MaxInbound
  /\ agent' = [agent EXCEPT !.pendingReplies = @ \cup {agent.nextId},
                            !.batch = Append(@, agent.nextId),
                            !.nextId = @ + 1]
  /\ UNCHANGED <<taskQueue, client, keyVars, managerVars>>

\* what BatchMessageProcessor answers when the group chat is switched off
groupChatOff ==
  [content |-> <<>>, thinking |-> <<>>, skipReply |-> TRUE,
   replies |-> <<>>, tasks |-> <<>>]

\* the responses a processed flush can carry
Responses == {generateResponse(text) : text \in Texts} \cup {groupChatOff}

\* onQueueFlushed: the queue manager has processed the batch
QueueFlushed(response) ==
  LET result == [processed |-> TRUE, response |-> response,
                 messageIds |-> agent.batch]
      s == handleQueueFlushResult(TheServices, result)
  IN /\ agent.batch # <<>>
     /\ Len(agent.flushes) < MaxFlushes
     /\ InstallServices(Services(s.q, [s.a EXCEPT !.batch = <<>>]))
     /\ UNCHANGED <<client, keyVars, managerVars>>

\* the enqueue that flush f awaits has settled
FlushResumes(f) ==
  /\ agent.flushes[f].state = "enqueuing"
  /\ taskQueue.tasks[agent.flushes[f].awaiting].future # "pending"
  /\ InstallServices(flushResumes(TheServices, f))
  /\ UNCHANGED <<client, keyVars, managerVars>>

NextAgent ==
  \/ Receive
  \/ \E response \in Responses : QueueFlushed(response)
  \/ \E f \in 1..Len(agent.flushes) : FlushResumes(f)
  \/ RunnerSteps

AgentSpec == Init /\ [][NextAgent]_vars

(* ----------------------- vocabulary of the claims ---------------------- *)
QueueIn(q, h, c) ==
  IF mapHas(q, c) THEN h[mapGet(q, c)].messages ELSE <<>>

TimerIn(q, h, c) ==
  IF mapHas(q, c) THEN h[mapGet(q, c)].silenceTimer ELSE NoTimer

QueueOf(c) == QueueIn(queues, heap, c)

\* the isProcessing flag of the context's queue state
Processing(c) == mapHas(queues, c) /\ heap[mapGet(queues, c)].isProcessing

\* the processMessages calls that have not returned
Pending(c) == {sid \in StateIds : inflight[sid].contextId = c}

NoFlushRunning(c) == Pending(c) = {}

\* processMessages is called on the object sid in this step
Started(sid) == inflight[sid] = NoCall /\ inflight'[sid] # NoCall

NothingStarted == \A sid \in StateIds : ~Started(sid)

\* the steps of the handlers the claims speak of
Adds(a, s) == nextMsg' = nextMsg + 1 /\ AddMessage(a, s)

Fires(sid) ==
  heap[sid].silenceTimer >= 0 /\ adminOps' = adminOps /\ nextMsg' = nextMsg
    /\ SilenceTimerFires(sid)

Throws(sid) == inflight[sid] # NoCall /\ ProcessMessagesSettles(sid, FALSE)

Flushes(c) ==
  adminOps' = adminOps + 1 /\ flushAllPc' = flushAllPc /\ stamina' = stamina
    /\ flushContext(c)

\* the messages the bot name or the command kind makes high priority
MentionsBot(shape) ==
  \/ shape.content \in {<<"@", "F", "b", " ">>, <<" ", "f", "B">>}
  \/ shape.type = "command"

\* the batch that holds the context's queue and the message being added
Incoming(c) == [messageId |-> nextMsg, contextId |-> c]

WithIncoming(c) == Append(handedOver(QueueOf(c)), Incoming(c))

StartedWith(c, batch, reason) ==
  /\ \E sid \in StateIds :
        /\ Started(sid)
        /\ inflight'[sid] =
             [contextId |-> c, messages |-> batch, reason |-> reason]
        /\ \A other \in StateIds \ {sid} : ~Started(other)
  /\ QueueIn(queues', heap', c) = <<>>

Refused(c, count, reason) == ret' = <<Result(c, FALSE, count, reason, FALSE)>>

Critical == calculateLevel(stamina.currentStamina) = "critical"

(* ------------------------------- claims -------------------------------- *)

\* C1: at most one processMessages call per context has not returned, under
\* every interleaving of addMessage, timer firings, flush() and clear().
C1_SingleFlight == \A c \in Contexts : Cardinality(Pending(c)) <= 1

\* C2: every batch handed to processMessages is the whole queue of one
\* context: its messages carry that contextId, are in enqueue order, were
\* all enqueued after the previous batch of the context was drained, and
\* none of them was handed over before.
C2_BatchesPartitionTheStream ==
  [][\A sid \in StateIds :
       Started(sid) =>
         LET c == inflight'[sid].contextId
             b == inflight'[sid].messages
         IN /\ b # <<>>
            /\ mapGet(queues, c) = sid \/ ~mapHas(queues, c)
            /\ heap'[sid].messages = <<>>
            /\ \A i \in 1..Len(b) :
                 /\ b[i].contextId = c
                 /\ b[i] \notin handed
                 /\ \A h \in handed :
                      h.contextId = c => h.messageId < b[i].messageId
            /\ \A i, j \in 1..Len(b) :
                 i < j => b[i].messageId < b[j].messageId
            /\ \/ nextMsg' = nextMsg /\ b = handedOver(QueueOf(c))
               \/ nextMsg' = nextMsg + 1 /\ b = WithIncoming(c)]_vars

C2_Witness ==
  \E sid \in StateIds :
    /\ Len(inflight[sid].messages) >= 2
    /\ \E h \in handed :
         /\ h.contextId = inflight[sid].contextId
         /\ \A i \in 1..Len(inflight[sid].messages) :
              h.messageId < inflight[sid].messages[i].messageId

C4_BusyRequestIsRefused ==
  [][\A c \in Contexts :
       Processing(c) =>
         /\ Flushes(c) =>
              /\ NothingStarted
              /\ QueueIn(queues', heap', c) = QueueOf(c)
              /\ Refused(c, Len(QueueOf(c)), "manual_trigger")
         /\ \A a \in Addresses, s \in Shapes :
              (getContextId(a) = c /\ MentionsBot(s) /\ Adds(a, s)) =>
                /\ NothingStarted
                /\ handedOver(QueueIn(queues', heap', c)) = WithIncoming(c)
                /\ Refused(c, Len(QueueOf(c)) + 1, "high_priority_trigger")
    ]_vars

OldestAge(c) ==
  IF QueueOf(c) = <<>> THEN 0 ELSE clock - QueueOf(c)[1].receivedAt

\* C7 as claimed: a non-priority addMessage below the size limit whose
\* oldest queued message is maxQueueAgeSeconds old or older flushes the
\* queue in that call with reason max_age_trigger.
C7_AgeFlushAlways ==
  [][\A a \in Addresses, s \in Shapes :
       LET c == getContextId(a) IN
       (~MentionsBot(s) /\ Len(QueueOf(c)) + 1 < maxQueueSize
          /\ OldestAge(c) >= maxQueueAgeSeconds /\ Adds(a, s))
         => StartedWith(c, WithIncoming(c), "max_age_trigger")]_vars

\* C7 as amended: the same, provided the context's queue state is not
\* processing and canReply() is true.
C7_AgeFlush ==
  [][\A a \in Addresses, s \in Shapes :
       LET c == getContextId(a) IN
       (~MentionsBot(s) /\ Len(QueueOf(c)) + 1 < maxQueueSize
          /\ OldestAge(c) >= maxQueueAgeSeconds
          /\ ~Processing(c) /\ canReply(stamina) /\ Adds(a, s))
         => StartedWith(c, WithIncoming(c), "max_age_trigger")]_vars

C7_Witness ==
  \E sid \in StateIds :
    /\ inflight[sid].reason = "max_age_trigger"
    /\ clock = maxQueueAgeSeconds

SilenceFiresOnFirstMessage(sid) ==
  /\ nextMsg = 2
  /\ handed = {}
  /\ mapGet(queues, heap[sid].contextId) = sid
  /\ ~stamina.restMode
  /\ Fires(sid)

NoHandedMessageQueued(h, done) ==
  \A sid \in StateIds :
    \A i \in 1..Len(h[sid].messages) : handedOver(h[sid].messages)[i] \notin done

\* C10: when processMessages throws, onQueueError is emitted once, the
\* result has processed=false, the batch is not put back in any queue and
\* is not handed over again, and the isProcessing flag of the queue state
\* is cleared.
C10_FailedBatchIsDiscarded ==
  [][/\ NoHandedMessageQueued(heap', handed')
     /\ \A sid \in StateIds :
       Throws(sid) =>
         LET call == inflight[sid] IN
         /\ events' = <<Event("onQueueError", call.reason)>>
         /\ ret' = <<Result(call.contextId, FALSE, Len(call.messages),
                            call.reason, TRUE)>>
         /\ ~heap'[sid].isProcessing
         /\ NothingStarted
         /\ handed' = handed
         /\ \A x \in StateIds : heap'[x].messages = heap[x].messages
                                  \/ heap'[x] = Blank]_vars

C10_Witness ==
  /\ Len(events) = 1
  /\ events[1].name = "onQueueError"
  /\ \E c \in Contexts : QueueOf(c) # <<>> /\ ~Processing(c)

\* the silence timer of the context's queue state is due
TimerDue(c, sid) ==
  /\ mapGet(queues, c) = sid
  /\ heap[sid].silenceTimer >= 0
  /\ heap[sid].silenceTimer <= clock

\* a flush started by the timer or by flush(c) awaits processMessages on the
\* context's queue state
RaceWinnerAwaits(c, sid) ==
  /\ mapGet(queues, c) = sid
  /\ inflight[sid].reason \in {"silence_trigger", "manual_trigger"}

NothingProcessed == \A i \in 1..Len(ret') : ~ret'[i].processed

\* whichever of the timer firing and flush(c) runs second, while the first
\* still awaits processMessages, hands nothing over
RaceLoserIsRefused ==
  \A c \in Contexts, sid \in StateIds :
    RaceWinnerAwaits(c, sid) =>
      /\ Flushes(c) => NothingStarted /\ NothingProcessed /\ Len(ret') = 1
      /\ Fires(sid) => NothingStarted /\ NothingProcessed

\* C11 as claimed: when the silence timer of a context is due and flush(c)
\* is requested, whichever runs first hands the whole queue over (a flush(c)
\* that runs first cancels the timer) and the other one hands nothing over
\* and has processed=false.
C11_TimerAndManualFlushAlways ==
  [][/\ RaceLoserIsRefused
     /\ \A c \in Contexts, sid \in StateIds :
          TimerDue(c, sid) =>
            /\ Fires(sid) =>
                 StartedWith(c, handedOver(QueueOf(c)), "silence_trigger")
            /\ Flushes(c) =>
                 /\ StartedWith(c, handedOver(QueueOf(c)), "manual_trigger")
                 /\ heap'[sid].silenceTimer = NoTimer]_vars

\* C11 as amended: the same, provided that no flush of the context is
\* already processing and canReply() is true when the two arrive.
C11_TimerAndManualFlush ==
  [][/\ RaceLoserIsRefused
     /\ \A c \in Contexts, sid \in StateIds :
          (TimerDue(c, sid) /\ ~Processing(c) /\ canReply(stamina)) =>
            /\ Fires(sid) =>
                 StartedWith(c, handedOver(QueueOf(c)), "silence_trigger")
            /\ Flushes(c) =>
                 /\ StartedWith(c, handedOver(QueueOf(c)), "manual_trigger")
                 /\ heap'[sid].silenceTimer = NoTimer]_vars

C11_Witness ==
  \E sid \in StateIds :
    /\ inflight[sid].reason = "silence_trigger"
    /\ mapGet(queues, inflight[sid].contextId) = sid
    /\ ret = <<Result(inflight[sid].contextId, FALSE, 0, "manual_trigger",
                      FALSE)>>

\* flush() without a context is called
FlushesAll ==
  flushAllPc.state = "idle" /\ adminOps' = adminOps + 1 /\ nextMsg' = nextMsg
    /\ flushEvery

\* C12: a flush request for a context whose queue is empty or absent
\* returns processed=false at once and calls processMessages for nothing,
\* flush() over all contexts included; so after one enqueue the first
\* processMessages call is the only one, however often flush is repeated.
C12_EmptyFlushIsNoOp ==
  [][/\ \A c \in Contexts :
          (QueueOf(c) = <<>> /\ Flushes(c)) =>
            /\ NothingStarted
            /\ handed' = handed
            /\ Refused(c, 0, "manual_trigger")
            /\ events' = <<>>
     /\ ((\A c \in Contexts : QueueOf(c) = <<>>) /\ FlushesAll) =>
          /\ NothingStarted
          /\ handed' = handed
          /\ NothingProcessed
          /\ flushAllPc' = Idle
     /\ \A sid \in StateIds :
          (nextMsg' = 2 /\ Started(sid)) =>
            handed = {} /\ Len(inflight'[sid].messages) = 1]_vars

C12_Witness ==
  \E sid \in StateIds :
    /\ nextMsg = 2
    /\ adminOps = 2
    /\ inflight[sid].reason = "manual_trigger"
    /\ Cardinality(handed) = 1
    /\ ret = <<Result(inflight[sid].contextId, FALSE, 0, "manual_trigger",
                      FALSE)>>

\* clear() is called
Clears ==
  adminOps' = adminOps + 1 /\ nextMsg' = nextMsg /\ flushAllPc' = flushAllPc
    /\ clearAll

\* the queue state object is referenced by the map
InMap(q, sid) == \E i \in 1..Len(q) : q[i][2] = sid

\* what clear() promises about the queued messages: every queue is gone,
\* nothing is handed over by the call, the dropped messages sit in no state
\* the map can reach, no flush ever starts on such a state, and a clear() on
\* the empty map changes nothing
ClearDropsEverything ==
  /\ Clears =>
       /\ queues' = <<>>
       /\ \A c \in Contexts : QueueIn(queues', heap', c) = <<>>
       /\ NothingStarted
       /\ handed' = handed
       /\ inflight' = inflight
       /\ queues = <<>> =>
            heap' = heap /\ processingContexts' = processingContexts
  /\ \A sid \in StateIds :
       (~InMap(queues, sid) /\ heap[sid].messages # <<>>) =>
         /\ ~InMap(queues', sid)
         /\ ~Started(sid)
         /\ heap'[sid].messages \in {heap[sid].messages, <<>>}
         /\ \A i \in 1..Len(heap[sid].messages) :
              handedOver(heap[sid].messages)[i] \notin handed'

\* C13 as claimed: clear() drops every queued message unprocessed, now and
\* later, leaves no silence timer armed, and a second clear() right after
\* changes nothing.
C13_ClearDropsAndDisarms ==
  [][/\ ClearDropsEverything
     /\ Clears => \A sid \in StateIds : heap'[sid].silenceTimer < 0]_vars

\* What does hold of clear(): the same with the timers of the states the map
\* holds; a state the finally block of an earlier flush removed from the map
\* keeps its timer armed.
C13_ClearDropsAndDisarmsMapped ==
  [][/\ ClearDropsEverything
     /\ Clears =>
          \A sid \in StateIds :
            InMap(queues, sid) => heap'[sid].silenceTimer < 0]_vars

C13_Witness ==
  /\ events = <<Event("log_cleared", "none")>>
  /\ adminOps = 2
  /\ nextMsg = 3
  /\ handed = {}
  /\ queues = <<>>
  /\ \A sid \in StateIds : heap[sid] = Blank

\* the processMessages call on the object sid returns in this step
Succeeds(sid) ==
  /\ inflight[sid] # NoCall
  /\ inflight'[sid] = NoCall
  /\ events' = <<Event("onQueueFlushed", inflight[sid].reason)>>

\* a step of the stamina manager that the queue does not take: the
\* background tick, or setStamina / setRestMode issued by the administrator
StaminaOwnStep ==
  \/ nextRegen' # nextRegen
  \/ /\ adminOps' = adminOps + 1
     /\ ret' = <<>>
     /\ events' = <<>>
     /\ queues' = queues /\ heap' = heap /\ inflight' = inflight

\* C14: the queue calls consumeStamina exactly when processMessages has
\* returned successfully, once, with the batch size as intensity; every
\* other step of the queue (enqueue, a flush that is skipped for being empty,
\* busy or short of stamina, a flush that starts, a processor that throws,
\* clear) leaves current and momentum untouched.
C14_ConsumeOnlyAfterSuccess ==
  [][/\ \A sid \in StateIds :
          Succeeds(sid) =>
            stamina' = consumeStamina(stamina, Len(inflight[sid].messages),
                                      clock)
     /\ (~StaminaOwnStep /\ \A sid \in StateIds : ~Succeeds(sid)) =>
          stamina' = stamina
     /\ (\E i \in 1..Len(ret') : ~ret'[i].processed) => stamina' = stamina
    ]_vars

C14_Witness ==
  /\ Len(events) = 1
  /\ events[1].name = "onQueueFlushed"
  /\ ret[1].processed
  /\ ret[1].messageCount = 2
  /\ stamina.momentum = Scale
  /\ stamina.currentStamina = MaxC - 2 * k * Scale - (4 * Scale) \div 10
                                + (regenRate * 2 * k * Scale) \div maxStamina

EndsWithQuestionMark(shape) ==
  shape.content # <<>> /\ shape.content[Len(shape.content)] = "?"

\* C15: addMessage of a message whose content ends with a question mark,
\* with no flush of its context running and canReply() true, has called
\* processMessages with the queue and the new message when it returns,
\* without waiting for the silence timer.
C15_QuestionIsHighPriority ==
  [][\A a \in Addresses, s \in Shapes :
       LET c == getContextId(a) IN
       (EndsWithQuestionMark(s) /\ NoFlushRunning(c) /\ canReply(stamina)
          /\ Adds(a, s))
         => StartedWith(c, WithIncoming(c), "high_priority_trigger")]_vars

\* C16: whatever ticks, consumeStamina, setStamina and rest-mode calls have
\* been made, current is within [0, maxStamina] and momentum is not negative.
C16_StaminaInRange ==
  /\ 0 <= stamina.currentStamina
  /\ stamina.currentStamina <= MaxC
  /\ stamina.momentum >= 0

\* a consumeStamina larger than what is left: current is held at 0
C16_Witness ==
  /\ stamina.currentStamina = 0
  /\ stamina.momentum >= 60 * Scale
  /\ ~stamina.restMode

\* the interval callback runs in this step
Ticks == nextRegen' # nextRegen

\* C17: in rest mode a background tick and a consumeStamina call leave
\* current as it is; the tick decays momentum (by the factor 1 - beta * dt,
\* not below 0), consumeStamina does not raise it; and canReply() is false.
C17_RestModeSuspends ==
  [][stamina.restMode =>
       /\ ~canReply(stamina)
       /\ Ticks =>
            LET dt == clock - stamina.lastUpdateTime IN
            /\ stamina'.currentStamina = stamina.currentStamina
            /\ stamina'.momentum =
                 Max(0, (stamina.momentum * (10 - dt)) \div 10)
            /\ stamina'.momentum <= stamina.momentum
            /\ (dt > 0 /\ stamina.momentum > 0) =>
                 stamina'.momentum < stamina.momentum
       /\ \A n \in Intensities :
            (adminOps' = adminOps + 1 /\ ConsumeStamina(n)) =>
              /\ stamina'.currentStamina = stamina.currentStamina
              /\ stamina'.momentum <= stamina.momentum]_vars

\* rest mode was entered with fatigue built up, and a tick has decayed it
C17_Witness ==
  /\ stamina.restMode
  /\ stamina.lastUpdateTime = clock
  /\ stamina.currentStamina < MaxC
  /\ stamina.currentStamina > 0
  /\ stamina.momentum > 0
  /\ stamina.momentum < Scale \div 2
  /\ adminOps = 2

KeySet == {apiKeys[i] : i \in 1..Len(apiKeys)}

\* getCurrentApiKey() is called
Acquires == acquired' # NoKey /\ GetCurrentApiKey

\* C18: a key whose errorCount has reached MAX_ERRORS_IN_WINDOW is blocked
\* with blockStartTime set; and getCurrentApiKey does not return a key that
\* is blocked for BLOCK_DURATION_MS or less while another key is not
\* blocked: with A blocked after five 429 errors and B not blocked it
\* returns B.
C18_BlockedKeyIsSkipped ==
  [][/\ \A key \in KeySet :
          keyStatus'[key].errorCount >= MAX_ERRORS_IN_WINDOW =>
            /\ keyStatus'[key].isBlocked
            /\ keyStatus'[key].blockStartTime # NoBlock
     /\ Acquires =>
          \A key \in KeySet :
            (/\ keyStatus[key].isBlocked
             /\ keyNow - keyStatus[key].blockStartTime <= BLOCK_DURATION_MS
             /\ \E other \in KeySet \ {key} : ~keyStatus[other].isBlocked)
              => /\ acquired' # key
                 /\ ~keyStatus'[acquired'].isBlocked
                 /\ keyStatus'[key].isBlocked]_vars

\* five 429 errors for A inside one window, B untouched, and the call made
\* at the last moment of A's block returns B
C18_Witness ==
  /\ acquired = "B"
  /\ keyStatus["A"].isBlocked
  /\ keyStatus["A"].errorCount = MAX_ERRORS_IN_WINDOW
  /\ keyStatus["A"].blockStartTime - keyStatus["A"].firstErrorTime
       <= ERROR_WINDOW_MS
  /\ keyNow = keyStatus["A"].blockStartTime + BLOCK_DURATION_MS
  /\ keyStatus["B"] = FreshStatus

\* C19: the key getCurrentApiKey returns is blocked only when every key is
\* blocked, and then no key has an earlier blockStartTime.
C19_BlockedOnlyWhenAllBlocked ==
  [][Acquires =>
       /\ acquired' \in KeySet
       /\ keyStatus'[acquired'].isBlocked =>
            \A key \in KeySet :
              /\ keyStatus'[key].isBlocked
              /\ keyStatus'[acquired'].blockStartTime
                   <= keyStatus'[key].blockStartTime]_vars

\* both keys blocked, B before A: B is returned
C19_Witness ==
  /\ acquired = "B"
  /\ keyStatus["A"].isBlocked
  /\ keyStatus["B"].isBlocked
  /\ keyStatus["B"].blockStartTime < keyStatus["A"].blockStartTime
  /\ currentKeyIndex = 0

\* a 429 error is recorded for the key
Records429(key) ==
  /\ keyStatus'[key].lastErrorTime = keyNow
  /\ keyStatus'[key].errorCount > 0
  /\ keyStatus'[key].errorCount # keyStatus[key].errorCount
  /\ acquired' = NoKey

\* C20: a key becomes blocked only by MAX_ERRORS_IN_WINDOW 429 errors that
\* all lie within ERROR_WINDOW_MS of the first of them, and a 429 error that
\* comes later than ERROR_WINDOW_MS after the first error of the window
\* restarts the count at 1.
C20_FiveWithinOneWindow ==
  [][\A key \in KeySet :
       /\ (~keyStatus[key].isBlocked /\ keyStatus'[key].isBlocked) =>
            /\ keyStatus'[key].errorCount >= MAX_ERRORS_IN_WINDOW
            /\ keyNow - keyStatus'[key].firstErrorTime <= ERROR_WINDOW_MS
       /\ (/\ Records429(key)
           /\ keyStatus[key].errorCount > 0
           /\ keyNow - keyStatus[key].firstErrorTime > ERROR_WINDOW_MS)
            => keyStatus'[key].errorCount = 1]_vars

\* executeWithRetry returns the result of an attempt made with the key
ReturnsWith(key) ==
  /\ client.state = "operation"
  /\ client'.state = "returned"
  /\ client.currentApiKey = key

\* C21: when a generateResponse call made with a key succeeds, the
\* errorCount of that key is 0 afterwards.
C21_SuccessResetsErrorCount ==
  [][\A key \in KeySet :
       ReturnsWith(key) => keyStatus'[key].errorCount = 0]_vars

\* the key stops being blocked
Released(key) == keyStatus[key].isBlocked /\ ~keyStatus'[key].isBlocked

\* a method that runs cleanExpiredBlocks is called
Sweeps == GetCurrentApiKey \/ SwitchToNext \/ GetStatus

BlockExpired(key) ==
  keyNow - keyStatus[key].blockStartTime > BLOCK_DURATION_MS

\* getCurrentApiKey returns the key when the cursor stands on it
Selectable(st, key, now) ==
  \E index \in 0..(Len(apiKeys) - 1) :
    /\ keyAt(index) = key
    /\ getCurrentApiKey(Manager(st, index), now).key = key

\* C22: a blocked key stops being blocked only in a sweep that finds it
\* blocked for more than BLOCK_DURATION_MS, in the daily reset, or in
\* resetApiKey for that key; each of the three does release it, and the
\* released key has errorCount 0 and is returned by getCurrentApiKey when
\* the cursor stands on it.
C22_BlockedUntilReleased ==
  [][\A key \in KeySet :
       /\ Released(key) =>
            /\ \/ Sweeps /\ BlockExpired(key)
               \/ DailyReset
               \/ ResetApiKey(key)
            /\ keyStatus'[key].errorCount = 0
            /\ Selectable(keyStatus', key, keyNow')
       /\ keyStatus[key].isBlocked =>
            /\ (Sweeps /\ BlockExpired(key)) => Released(key)
            /\ DailyReset => Released(key)
            /\ ResetApiKey(key) => Released(key)]_vars

\* A was blocked and a sweep has released it: its last error is still on
\* record, which the two resets erase, and getCurrentApiKey returned it
C22_Witness ==
  /\ acquired = "A"
  /\ ~keyStatus["A"].isBlocked
  /\ keyStatus["A"].errorCount = 0
  /\ keyStatus["A"].lastErrorTime > 0
  /\ keyNow - keyStatus["A"].lastErrorTime > BLOCK_DURATION_MS

\* executeWithRetry has returned or thrown
Ended(c) == c.state = "returned" \/ c.state = "thrown"

\* an attempt of executeWithRetry fails
AttemptFails == client.state = "operation" /\ ~Ended(client')
                  /\ client'.state # "operation"

\* C23: one generateResponse call invokes generateContent at most
\* MAX_RETRIES times; it returns in the step in which an attempt succeeds,
\* with the response built from that attempt's text, and invokes nothing
\* more; a failed attempt before the last is followed by a retry; and it
\* throws only in the step in which attempt MAX_RETRIES fails, and throws
\* the error of that attempt.
C23_AtMostThreeAttempts ==
  [][/\ client'.invocations <= MAX_RETRIES
     /\ (client'.state = "returned" /\ client.state # "returned") =>
          /\ client.state = "operation"
          /\ client'.invocations = client.invocations
          /\ client'.response = generateResponse(client'.text)
     /\ (Ended(client) /\ client'.invocations # client.invocations) =>
          /\ client'.calls = client.calls + 1
          /\ client'.invocations = 1
     /\ (client'.state = "thrown" /\ client.state # "thrown") =>
          /\ client.state = "operation"
          /\ client.invocations = MAX_RETRIES
          /\ \E error \in Errors :
               OperationThrows(error) /\ client'.lastError = error
     /\ (AttemptFails /\ client.invocations < MAX_RETRIES) =>
          client'.state = "sleep"]_vars

\* the third attempt of a call has failed and the call has thrown
C23_Witness ==
  /\ client.state = "thrown"
  /\ client.invocations = MAX_RETRIES
  /\ client.lastError = "other"

formatFallback ==
  <<"f", "o", "r", "m", "a", "t", " ", "f", "a", "l", "l", "b", "a", "c", "k">>

\* C24: when generateResponse returns on a text that is not JSON, it has
\* made one request to the model beyond its attempts, the reformat request,
\* and the response is a reply whose only message is the raw text and whose
\* thinking is "format fallback".
C24_OneReformatThenFallback ==
  (client.state = "returned" /\ ~client.text.parsed.ok) =>
     /\ client.invocations = client.attempt + 1
     /\ ~client.response.skipReply
     /\ client.response.replies = <<client.text.raw>>
     /\ client.response.thinking = formatFallback

\* the number of times the handler was invoked for the task
Invocations(q, id) == Cardinality({i \in 1..Len(q.log) : q.log[i] = id})

Ran(q, id) == Invocations(q, id) > 0

\* the queue a step offers to the runner: the queue with the task the step
\* enqueues, appended or, when of high priority, prepended, or with the
\* task whose retry delay ends in front
Offered ==
  LET n == Len(taskQueue'.tasks)
      back == taskQueue.retrying \ taskQueue'.retrying
  IN IF n > Len(taskQueue.tasks)
     THEN IF taskQueue'.tasks[n].priority = "high"
          THEN <<n>> \o taskQueue.queue ELSE Append(taskQueue.queue, n)
     ELSE IF back # {} THEN <<CHOOSE id \in back : TRUE>> \o taskQueue.queue
     ELSE taskQueue.queue

\* C25: at most one task is with the runner, in its handler or in its retry
\* delay, and so at most one handler invocation is in flight; a handler is
\* invoked for the task in front of the queue, where enqueue appends a
\* normal task and prepends a high-priority one, and the queue keeps the
\* rest in order; a normal task is not handled before every normal task
\* enqueued earlier has been settled.
C25_OneAtATimeFromTheFront ==
  [][/\ Cardinality(taskQueue'.running \cup taskQueue'.retrying) <= 1
     /\ IF taskQueue'.log # taskQueue.log
        THEN /\ Offered # <<>>
             /\ taskQueue'.log = Append(taskQueue.log, Head(Offered))
             /\ taskQueue'.running \ taskQueue.running = {Head(Offered)}
             /\ taskQueue'.queue = Tail(Offered)
        ELSE taskQueue'.queue = Offered
     /\ \A i, j \in 1..Len(taskQueue'.tasks) :
          (/\ i < j
           /\ taskQueue'.tasks[i].priority = "normal"
           /\ taskQueue'.tasks[j].priority = "normal"
           /\ Ran(taskQueue', j))
            => taskQueue'.tasks[i].future # "pending"]_vars

\* a high-priority task enqueued behind a waiting normal task has been
\* handled before it, after the task that was in flight
C25_Witness ==
  /\ taskQueue.log = <<1, 3, 2>>
  /\ taskQueue.tasks[1].priority = "normal"
  /\ taskQueue.tasks[2].priority = "normal"
  /\ taskQueue.tasks[3].priority = "high"

\* C26: the handler is invoked for a task at most maxAttempts times; the
\* future of the task is resolved in the step in which an invocation
\* returns and only there; it is rejected in the step in which invocation
\* maxAttempts throws and only there; it is settled at most once, and a
\* settled task is never invoked again.
C26_AttemptsAndSettlement ==
  [][\A id \in 1..Len(taskQueue'.tasks) :
       LET new == taskQueue'.tasks[id] IN
       /\ Invocations(taskQueue', id) <= new.maxAttempts
       /\ new.settles <= 1
       /\ id <= Len(taskQueue.tasks) =>
            LET old == taskQueue.tasks[id]
                settles(how) == old.future = "pending" /\ new.future = how
            IN /\ settles("resolved") <=> HandlerReturns(id)
               /\ settles("rejected") <=>
                    /\ HandlerThrows(id)
                    /\ Invocations(taskQueue, id) = old.maxAttempts
               /\ old.future # "pending" =>
                    /\ new.future = old.future
                    /\ Invocations(taskQueue', id)
                         = Invocations(taskQueue, id)]_vars

\* one task rejected when its third invocation failed, another resolved by
\* its second invocation
C26_Witness ==
  /\ Len(taskQueue.tasks) >= 2
  /\ taskQueue.tasks[1].future = "rejected"
  /\ taskQueue.tasks[1].maxAttempts = MaxAttempts
  /\ Invocations(taskQueue, 1) = MaxAttempts
  /\ taskQueue.tasks[2].future = "resolved"
  /\ Invocations(taskQueue, 2) = 2

\* C27: when shutdown has returned, no task is left in the queue and no
\* future is pending.
C27_ShutdownRejectsTheRest ==
  taskQueue.shutdown = "done" =>
     /\ taskQueue.queue = <<>>
     /\ \A id \in 1..Len(taskQueue.tasks) :
          taskQueue.tasks[id].future # "pending"

\* what does hold of shutdown: once it is called no handler is invoked any
\* more, and it returns only when no task is with the runner
C27_ShutdownStopsAndWaits ==
  [][/\ taskQueue.stopRequested => taskQueue'.log = taskQueue.log
     /\ taskQueue'.shutdown = "done" =>
          taskQueue'.running \cup taskQueue'.retrying = {}]_vars

\* the tasks of a type that flush f has enqueued, in the order of enqueuing
TasksOf(q, f, type) ==
  SelectSeq([id \in 1..Len(q.tasks) |-> id],
            LAMBDA id : /\ q.tasks[id].type = type
                        /\ q.tasks[id].payload.flush = f)

MessagesOf(q, ids) == [i \in 1..Len(ids) |-> q.tasks[ids[i]].payload.message]

\* the strings that are not blank, trimmed
NonBlank(replies) ==
  LET kept == SelectSeq(replies, LAMBDA reply : trim(reply) # <<>>)
  IN [i \in 1..Len(kept) |-> trim(kept[i])]

IsPrefix(a, b) == Len(a) <= Len(b) /\ a = SubSeq(b, 1, Len(a))

\* a processed flush whose response is a reply, with a correlated entry
ReplyFlush(flush) ==
  /\ ~flush.response.skipReply
  /\ flush.response.replies # <<>>
  /\ flush.pending # <<>>

\* the most recent of the entries correlated with the flush
MostRecent(flush) ==
  CHOOSE id \in {flush.pending[i] : i \in 1..Len(flush.pending)} :
    \A i \in 1..Len(flush.pending) : flush.pending[i] <= id

SentOf(a, f) ==
  LET sent == SelectSeq(a.outbound, LAMBDA payload : payload.flush = f)
  IN [i \in 1..Len(sent) |-> sent[i].message]

RECURSIVE IsSubsequence(_, _)
IsSubsequence(a, b) ==
  IF a = <<>> THEN TRUE
  ELSE IF b = <<>> THEN FALSE
  ELSE IF Head(a) = Head(b) THEN IsSubsequence(Tail(a), Tail(b))
  ELSE IsSubsequence(a, Tail(b))

\* C29: the replies of one flush that have reached the bus are in the order
\* of the strings of the response, each at most once, whatever attempts
\* failed and whatever other flushes enqueued in between.
C29_RepliesInOrder ==
  \A f \in 1..Len(agent.flushes) :
    IsSubsequence(SentOf(agent, f),
                  NonBlank(agent.flushes[f].response.replies))

\* both replies of a flush are out, the first after a failed attempt, and a
\* task of another flush was enqueued between the two
C29_Witness ==
  \E f \in 1..Len(agent.flushes) :
    LET ids == TasksOf(taskQueue, f, "send_message")
    IN /\ Len(SentOf(agent, f)) = 2
       /\ Len(ids) = 2
       /\ Invocations(taskQueue, ids[1]) > 1
       /\ \E id \in (ids[1] + 1)..(ids[2] - 1) :
            taskQueue.tasks[id].payload.flush # f

\* the response of a no_reply decision: the model gave a reason, no message
NoReply(response) ==
  \E text \in Texts :
    /\ text.parsed.ok
    /\ text.parsed.messages = <<>>
    /\ text.parsed.reason # <<>>
    /\ response = generateResponse(text)

\* C30: when a processed flush with a no_reply decision is reported, no
\* send_message task is enqueued, the pending entries of the messages of the
\* batch are removed, and a store_memory task is enqueued if and only if
\* the thinking text is not empty.
C30_NoReplyCleansUp ==
  [][\A response \in Responses :
       (NoReply(response) /\ QueueFlushed(response)) =>
          LET f == Len(agent'.flushes)
          IN /\ TasksOf(taskQueue', f, "send_message") = <<>>
             /\ \A i \in 1..Len(agent.batch) :
                  agent.batch[i] \notin agent'.pendingReplies
             /\ TasksOf(taskQueue', f, "store_memory") # <<>>
                  <=> response.thinking # <<>>]_vars

\* the enqueue that flush f awaits was rejected, and the flush goes on
ResumesAfterFailure(f) ==
  /\ agent.flushes[f].state = "enqueuing"
  /\ taskQueue.tasks[agent.flushes[f].awaiting].future = "rejected"
  /\ FlushResumes(f)

Answered(flush) == {flush.pending[i] : i \in 1..Len(flush.pending)}

\* C31: once a reply flush has been handled, no pending entry correlated
\* with its batch is left, whether its deliveries succeeded or failed for
\* good; and a delivery that failed for good does not end the handler: it
\* removes the entry of the reply, reports to the administrator and goes on
\* with the next reply or with the end of the handler.
C31_HandledReplyLeavesNoPending ==
  [][/\ \A f \in 1..Len(agent'.flushes) :
          LET flush == agent'.flushes[f] IN
          (ReplyFlush(flush) /\ flush.state \in {"done", "empty"}) =>
            Answered(flush) \cap agent'.pendingReplies = {}
     /\ \A f \in 1..Len(agent.flushes) :
          ResumesAfterFailure(f) =>
            LET flush == agent.flushes[f] IN
            /\ taskQueue.tasks[flush.awaiting].attempts
                 = taskQueue.tasks[flush.awaiting].maxAttempts
            /\ flush.pending[Len(flush.pending)] \notin agent'.pendingReplies
            /\ agent'.reports = agent.reports + 1
            /\ agent'.flushes[f].state =
                 IF flush.pos < Len(flush.items) THEN "enqueuing" ELSE "done"
    ]_vars

\* a reply for a batch of two messages has been handled with the runner
\* still on: its only delivery failed on every attempt, and no entry is left
C31_Witness ==
  \E f \in 1..Len(agent.flushes) :
    LET ids == TasksOf(taskQueue, f, "send_message") IN
    /\ agent.flushes[f].state = "done"
    /\ Len(agent.flushes[f].pending) = 2
    /\ taskQueue.shutdown = "none"
    /\ Len(ids) = 1
    /\ taskQueue.tasks[ids[1]].future = "rejected"
    /\ Invocations(taskQueue, ids[1]) = DEFAULT_MAX_ATTEMPTS
    /\ agent.reports = 1
    /\ agent.pendingReplies = {}

\* an attempt of the call fails with the error and another attempt follows
FailsBeforeRetry(error) ==
  /\ client.state = "operation"
  /\ client'.state = "sleep"
  /\ client'.lastError = error
  /\ OperationThrows(error)

\* C32: within one generateResponse call, after an attempt fails with a 429
\* or an api key error while a key other than the one used is not blocked,
\* the next attempt uses a different key; after any other error the next
\* attempt uses the same key.
C32_RotatesOnRateLimit ==
  [][\A error \in Errors :
       FailsBeforeRetry(error) =>
         IF shouldSwitchKey(error)
         THEN (\E other \in KeySet \ {client.currentApiKey} :
                 ~keyStatus'[other].isBlocked)
                => client'.currentApiKey # client.currentApiKey
         ELSE client'.currentApiKey = client.currentApiKey]_vars

\* C33: with silenceSeconds > 0, a context that holds a queued message while
\* no flush of it is in progress has its silence timer armed, also after a
\* flush request that was skipped for a running flush or for want of
\* stamina; so the message is flushed or dropped without another enqueue.
C33_QueuedMessageHasTimer ==
  silenceSeconds > 0 =>
    \A c \in Contexts :
      (QueueOf(c) # <<>> /\ NoFlushRunning(c)) =>
        TimerIn(queues, heap, c) >= 0

\* the processMessages call awaited on the object sid settles in this step
Settles(sid) == inflight[sid] # NoCall /\ inflight'[sid] = NoCall

\* C34: when a flush that was awaiting processMessages while clear() ran
\* completes, the queue state that a later addMessage created for the same
\* context stays in the map; and the silence timer of a state that holds
\* messages, firing while canReply() is true and the state is not
\* processing, hands its messages over.
C34_ClearDuringFlushSparesLaterTraffic ==
  [][\A sid \in StateIds :
       /\ Settles(sid) =>
            LET c == inflight[sid].contextId
                cur == mapGet(queues, c)
            IN (cur # NoState /\ cur # sid) => mapGet(queues', c) = cur
       /\ (/\ Fires(sid)
           /\ heap[sid].messages # <<>>
           /\ ~heap[sid].isProcessing
           /\ canReply(stamina))
            => Started(sid)]_vars

\* the queue state holds nothing, has no armed timer and is not processing
IdleState(state) ==
  /\ state.messages = <<>>
  /\ state.silenceTimer < 0
  /\ ~state.isProcessing

\* C35: whenever a flush request for a context returns, the map holds no
\* state for that context that is empty, has no armed silence timer and is
\* not processing.
C35_IdleStateIsDeleted ==
  [][\A i \in 1..Len(ret') :
       LET c == ret'[i].contextId IN
       mapHas(queues', c) => ~IdleState(heap'[mapGet(queues', c)])]_vars

\* C36: for a reply flush whose response has a thinking text, one
\* store_memory task is enqueued, no more, and only when every send_message
\* task of the flush has been enqueued.
C36_OneThoughtAfterTheReplies ==
  \A f \in 1..Len(agent.flushes) :
    LET flush == agent.flushes[f]
        sends == TasksOf(taskQueue, f, "send_message")
        thoughts == TasksOf(taskQueue, f, "store_memory")
    IN (ReplyFlush(flush) /\ trim(flush.response.thinking) # <<>>) =>
         /\ Len(thoughts) <= 1
         /\ flush.state = "done" => Len(thoughts) = 1
         /\ thoughts # <<>> =>
              /\ Len(sends) = Len(NonBlank(flush.response.replies))
              /\ \A i \in 1..Len(sends) : sends[i] < thoughts[1]

\* the positions of the replies of flush f on the bus
SentAt(a, f) == {i \in 1..Len(a.outbound) : a.outbound[i].flush = f}

\* C37: the batches of a context are answered in order: every send_message
\* task of an earlier flush is enqueued before any of a later flush, and
\* every reply of the earlier flush reaches the bus before any reply of the
\* later one, also when a delivery of the earlier flush is being retried
\* while the later flush is reported.
C37_BatchesAnsweredInOrder ==
  \A f, g \in 1..Len(agent.flushes) :
    f < g =>
      /\ \A i \in 1..Len(TasksOf(taskQueue, f, "send_message")),
            j \in 1..Len(TasksOf(taskQueue, g, "send_message")) :
           TasksOf(taskQueue, f, "send_message")[i]
             < TasksOf(taskQueue, g, "send_message")[j]
      /\ \A i \in SentAt(agent, f), j \in SentAt(agent, g) : i < j

\* generateContent is called in this step
Sends == client.state # "operation" /\ client'.state = "operation"

\* the key is blocked and its block has not run out
BlockedAt(st, key, now) == cleanExpiredBlocks(st, now)[key].isBlocked

\* C38: a request to the model is not sent with a key that is blocked at
\* that moment while another key is not blocked, whatever the other users
\* of the key manager have done since the client last acquired its key.
C38_NoRequestWithBlockedKey ==
  [][Sends =>
       (BlockedAt(keyStatus', client'.currentApiKey, keyNow')
          => \A other \in KeySet : BlockedAt(keyStatus', other, keyNow'))
    ]_vars

\* C39: while a key stays blocked its blockStartTime does not change: the
\* errors recorded for it meanwhile do not postpone its release.
C39_BlockStartIsKept ==
  [][\A key \in KeySet :
       (keyStatus[key].isBlocked /\ keyStatus'[key].isBlocked) =>
          keyStatus'[key].blockStartTime = keyStatus[key].blockStartTime
    ]_vars

\* the task has been enqueued and its future is settled
Settled(id) ==
  id <= Len(taskQueue.tasks) /\ taskQueue.tasks[id].future # "pending"

\* C40: in a task queue that is never shut down and whose handler
\* invocations all end, no task waits in the queue while the runner has no
\* task in its handler or in a retry delay, and the future of every
\* enqueued task is eventually settled, also of the tasks enqueued while
\* another task is with the runner.
C40_EveryTaskIsSettled ==
  /\ [](taskQueue.queue # <<>> =>
          /\ taskQueue.isProcessing
          /\ taskQueue.running \cup taskQueue.retrying # {})
  /\ \A id \in 1..MaxTasks : (id <= Len(taskQueue.tasks)) ~> Settled(id)

\* two tasks were enqueued while the first one was with the runner, which
\* now waits in a retry delay
C40_Witness ==
  /\ ~taskQueue.stopRequested
  /\ taskQueue.retrying = {1}
  /\ taskQueue.queue = <<3, 2>>
  /\ taskQueue.tasks[3].priority = "high"

====
